---- MODULE Spec2Model ----
(***************************************************************************)
(* Host networking control plane of the container runtime: the two IP      *)
(* allocators (the channel-based IPAllocator served by its run goroutine   *)
(* and the mutex-guarded module-level RequestIP/ReleaseIP), modelled from  *)
(* src/networkdriver/ipallocator/allocator.go.                             *)
(*                                                                         *)
(* An IP address is the tuple of its bytes (4 for IPv4, 16 for IPv6), a    *)
(* network is a record [IP, Mask] of two such tuples (net.IPNet).  int32   *)
(* values are TLA+ integers in -2^31 .. 2^31-1; a uint64 is the tuple of   *)
(* its 8 big-endian bytes, because its values do not fit the checker's     *)
(* integers.                                                               *)
(***************************************************************************)
EXTENDS Integers, Sequences, FiniteSets, TLC

VARIABLES
    network,        \* IPAllocator.network (fixed at construction)
    inUse,          \* IPAllocator.inUse: the keys of the map, as addresses
    pos,            \* run(): the local pos
    offer,          \* run(): the allocatedIP built after the search, [ip, err]
    runPc,          \* run(): "search" (before the for loop) or "select"
    callPc,         \* per caller: "idle", "Acquire" (blocked on <-queueAlloc),
                    \*             "Release" (blocked on queueReleased <- ip)
    callArg,        \* per caller: the address passed to Release
    held,           \* per caller: addresses Acquire returned and not yet released
    last,           \* the last completed channel operation and what it returned
    fresh,          \* no Release has been served since construction
    nAcq,           \* while fresh: number of Acquire calls served (saturating)
    phase,          \* "none", "released", "reacq": releases, then acquires
    relFirst,       \* the address released first in the current phase
    prevAcq,        \* the previous Acquire result inside the "reacq" phase
    address,        \* module-level allocator: the *net.IPNet the callers pass
    allocatedIPs,   \* module-level allocator: allocatedIPs (key -> OrderedIntSet)
    availableIPS,   \* module-level allocator: availableIPS (key -> OrderedIntSet)
    mheld,          \* addresses RequestIP returned and not yet passed to ReleaseIP
    mlast,          \* the last module-level call and what it returned
    relOrder,       \* addresses released and not handed out again, oldest first
    everUsed,       \* addresses RequestIP has ever returned
    inUsePorts,     \* PortAllocator.inUse: the keys of the map
    fountainPort,   \* runFountain(): the loop variable port
    fountainPc,     \* runFountain(): "select" or "returned"
    quitClosed,     \* close(alloc.quit) was executed
    fountainClosed, \* close(alloc.fountain) was executed
    portPc,         \* per caller: "idle", "range" (Acquire(0) blocked on the
                    \*   fountain), "try" (inner Acquire(port)), "quit" (Close
                    \*   blocked on alloc.quit <- true), "closeQuit",
                    \*   "closeFountain", "panic"
    portCand,       \* per caller: the port Acquire(0) received from the fountain
    portFrom,       \* per caller: fountainPort when its Acquire(0) began
    atClose,        \* per caller: its Acquire(0) was blocked when Close was called
    nClose,         \* number of Close calls begun
    portLast,       \* the last PortAllocator call that returned, and its result
    acqSince,       \* per port: successful Acquires since its last Release
    relPort,        \* the port released last, while only Acquire(0) followed
    sinceRel,       \* fountain emissions since that Release (saturating)
    tcpMapping,     \* PortMapper.tcpMapping: host port -> backend
    tcpProxies,     \* PortMapper.tcpProxies: host ports with a proxy
    udpMapping,     \* PortMapper.udpMapping
    udpProxies,     \* PortMapper.udpProxies
    iptables,       \* PortMapper.iptables: "chain" or "nil"
    natRules,       \* kernel: DNAT rules of the chain, <<proto, port, backend>> -> count
    fwdRules,       \* kernel: FORWARD ACCEPT rules, <<proto, backend>> -> count
    mapLast,        \* the last Map or Unmap call and what it did
    mapCall,        \* per goroutine: where it stands in Map or Unmap, and the
                    \*   arguments of the call
    disabled,       \* NetworkManager.disabled
    network6,       \* manager.ipAllocator6.network
    inUse6,         \* manager.ipAllocator6.inUse
    pos6,           \* pos of ipAllocator6's run
    udpInUse,       \* manager.udpPortAllocator.inUse
    udpFountain,    \* the loop variable of udpPortAllocator's runFountain
    ifaces,         \* the NetworkInterfaces Allocate has returned
    mgrClosed,      \* NetworkManager.Close has closed the four allocators
    mgrPanic,       \* a goroutine of the manager has panicked
    mgrLast,        \* the last call on the manager or on an interface
    refused,        \* calls so far in which iptables or the proxy refused
    fnCall,         \* the last call of a function of the package: its
                    \*   arguments and its result
    host,           \* the host's network: routes, nameservers, the bridge
    boot            \* where newNetworkManager stands, and what it has done

chanVars == <<network, inUse, pos, offer, runPc, callPc, callArg, held,
              last, fresh, nAcq, phase, relFirst, prevAcq>>
modVars  == <<address, allocatedIPs, availableIPS, mheld, mlast, relOrder, everUsed>>
portVars == <<inUsePorts, fountainPort, fountainPc, quitClosed, fountainClosed,
              portPc, portCand, portFrom, atClose, nClose, portLast, acqSince,
              relPort, sinceRel>>
mapVars  == <<tcpMapping, tcpProxies, udpMapping, udpProxies, iptables,
              natRules, fwdRules, mapLast>>
mgrVars  == <<mapCall, disabled, network6, inUse6, pos6, udpInUse, udpFountain,
              ifaces, mgrClosed, mgrPanic, mgrLast, refused, fnCall,
              host, boot>>
restVars == <<portVars, mapVars, mgrVars>>
vars     == <<chanVars, modVars, portVars, mapVars, mgrVars>>

-----------------------------------------------------------------------------
(* Bounds of the model *)

NumCallers == 2     \* concurrent callers of Acquire/Release
MaxCount   == 8     \* nAcq saturates here
MaxBelow   == 2     \* run's pos is followed down to -MaxBelow (it is an int32)

Callers == 1..NumCallers

-----------------------------------------------------------------------------
(* Bytes and fixed-width integers *)

RECURSIVE And8(_, _, _)
And8(a, b, n) ==
    IF n = 0 THEN 0
    ELSE (IF a % 2 = 1 /\ b % 2 = 1 THEN 1 ELSE 0) + 2 * And8(a \div 2, b \div 2, n - 1)

Not8(a) == 255 - a
Or8(a, b) == a + b - And8(a, b, 8)

\* Go's % truncates towards zero; TLA+'s % is the non-negative remainder.
GoMod(a, b) == IF a >= 0 THEN a % b ELSE 0 - ((0 - a) % b)

\* encoding/binary BigEndian.Uint64 / PutUint64: a uint64 is kept as its 8 bytes.
U64Zero == <<0, 0, 0, 0, 0, 0, 0, 0>>

RECURSIVE U64AddAt(_, _, _)
U64AddAt(u, n, i) ==
    IF i = 0 \/ n = 0 THEN u
    ELSE LET s == u[i] + (n % 256)
         IN  U64AddAt([u EXCEPT ![i] = s % 256], (n \div 256) + (s \div 256), i - 1)

\* u + n modulo 2^64, for a natural n
U64Add(u, n) == U64AddAt(u, n, 8)

RECURSIVE U64SubAt(_, _, _, _)
U64SubAt(u, v, borrow, i) ==
    IF i = 0 THEN u
    ELSE LET d == u[i] - v[i] - borrow
         IN  U64SubAt([u EXCEPT ![i] = d % 256], v, IF d < 0 THEN 1 ELSE 0, i - 1)

\* u - v modulo 2^64
U64Sub(u, v) == U64SubAt(u, v, 0, 8)

\* The value of a uint64 below 2^24 (the networks of this model are no larger);
\* a larger value is reported as 2^24.
U64Small(u) ==
    IF \A i \in 1..5 : u[i] = 0
    THEN u[6] * 65536 + u[7] * 256 + u[8]
    ELSE 16777216

-----------------------------------------------------------------------------
(* Address arithmetic (package docker) *)

IsV4(ip) == Len(ip) = 4

\* ipToInt: int32(binary.BigEndian.Uint32(ip.To4()))
ipToInt(ip) ==
    (IF ip[1] >= 128 THEN ip[1] - 256 ELSE ip[1]) * 16777216
        + ip[2] * 65536 + ip[3] * 256 + ip[4]

\* an intToIP that takes a negative int32 for zero
intToIPClamped(n) ==
    LET m == IF n < 0 THEN 0 ELSE n
    IN  << (m \div 16777216) % 256, (m \div 65536) % 256, (m \div 256) % 256, m % 256 >>

\* intToIP: the 4 big-endian bytes of uint32(n)
intToIP(n) ==
    << (n \div 16777216) % 256, (n \div 65536) % 256, (n \div 256) % 256, n % 256 >>

\* ip6ToInt: the two big-endian uint64 halves of the 16 bytes
ip6ToInt(ip) == << SubSeq(ip, 1, 8), SubSeq(ip, 9, 16) >>

\* intToIP6: the 16 bytes of the two halves
intToIP6(n1, n2) == n1 \o n2

\* a net.IP built byte by byte, as the tuple of its bytes
RECURSIVE IPBytes(_, _)
IPBytes(f, len) == IF len = 0 THEN <<>> ELSE Append(IPBytes(f, len - 1), f[len])

\* networkRange: first = IP AND mask, last = IP OR NOT mask, byte by byte
networkRange(n) ==
    << IPBytes([i \in 1..Len(n.IP) |-> And8(n.IP[i], n.Mask[i], 8)], Len(n.IP)),
       IPBytes([i \in 1..Len(n.IP) |-> Or8(n.IP[i], Not8(n.Mask[i]))], Len(n.IP)) >>

\* n + 1 in int32: the largest value wraps to the smallest
Int32Inc(n) == IF n = 2147483647 THEN 0 - 2147483647 - 1 ELSE n + 1

\* networkSize: int32(BigEndian.Uint32(NOT mask)) + 1
networkSize(mask) == Int32Inc(ipToInt([i \in 1..4 |-> Not8(mask[i])]))

\* networkSize6: the two uint64 halves of NOT mask
networkSize6(mask) == ip6ToInt([i \in 1..16 |-> Not8(mask[i])])

-----------------------------------------------------------------------------
(* The networks an allocator is built for *)

Mask6(lastByte) == <<255, 255, 255, 255, 255, 255, 255, 255,
                     255, 255, 255, 255, 255, 255, 255, lastByte>>
Doc6(lastByte)  == <<32, 1, 13, 184, 0, 0, 0, 0, 0, 0, 0, 0, 0, 0, 0, lastByte>>

TestNet  == [IP |-> <<127, 0, 0, 1>>,     Mask |-> <<255, 255, 255, 248>>]  \* 127.0.0.1/29
MidNet   == [IP |-> <<192, 168, 42, 2>>,  Mask |-> <<255, 255, 255, 252>>]  \* 192.168.42.2/30
SmallNet == [IP |-> <<10, 0, 42, 1>>,     Mask |-> <<255, 255, 255, 252>>]  \* 10.0.42.1/30
PairNet  == [IP |-> <<10, 1, 42, 1>>,     Mask |-> <<255, 255, 255, 254>>]  \* 10.1.42.1/31
TestNet6 == [IP |-> Doc6(1), Mask |-> Mask6(248)]                           \* 2001:db8::1/125
MidNet6  == [IP |-> Doc6(2), Mask |-> Mask6(252)]                           \* 2001:db8::2/126
PairNet6 == [IP |-> Doc6(1), Mask |-> Mask6(254)]                           \* 2001:db8::1/127

Networks4 == {TestNet, MidNet, SmallNet, PairNet}
Networks6 == {TestNet6, MidNet6, PairNet6}
AllNetworks == Networks4 \cup Networks6

\* a bridge whose address is not the first of its subnet: 127.0.0.2/29
GwNet == [IP |-> <<127, 0, 0, 2>>, Mask |-> <<255, 255, 255, 248>>]

\* the networks the per-network tables are computed for
TableNetworks == AllNetworks \cup {GwNet}

\* the networks of the concurrent callers' model; the single caller's model
\* has TestNet6 too
ChanNetworks == Networks4 \cup {MidNet6, PairNet6}

-----------------------------------------------------------------------------
(* What the documentation calls allocable, stated without the code's loops *)

NoIP == <<>>

RECURSIVE Product(_, _)
Product(f, i) == IF i = 0 THEN 1 ELSE f[i] * Product(f, i - 1)

\* number of addresses of the subnet: 2^(address bits - prefix length); the
\* networks of this model differ from their mask in the last byte only
HostCount(n) == Product([i \in 1..Len(n.Mask) |-> Not8(n.Mask[i]) + 1], Len(n.Mask))

\* the address at position p of the subnet
AddrAt(n, p) ==
    LET first == networkRange(n)[1]
    IN  Append(SubSeq(first, 1, Len(first) - 1), first[Len(first)] + p)

\* IPv4: positions 1..size-2; IPv6: positions 1..size-1 (no broadcast address)
LastPos(n) == IF IsV4(n.IP) THEN HostCount(n) - 2 ELSE HostCount(n) - 1

\* the addresses Acquire may hand out: every position but the gateway's
Allocable(n) == {AddrAt(n, p) : p \in 1..LastPos(n)} \ {n.IP}

\* Allocable, computed once for each network of the model
AllocableOf == [n \in TableNetworks |-> Allocable(n)]

\* networkRange and LastPos, computed once for each network of the model
RangeOf   == [n \in TableNetworks |-> networkRange(n)]
LastPosOf == [n \in TableNetworks |-> LastPos(n)]

\* the first address of `free` met from the position after `prev`, going up
\* and wrapping from the last position to position 1
NextCyclicFree(n, prev, free) ==
    LET k     == LastPosOf[n]
        first == RangeOf[n][1]
        l     == Len(first)
        at(i) == Append(SubSeq(first, 1, l - 1),
                        first[l] + ((prev[l] - first[l] + i - 1) % k) + 1)
        i0   == CHOOSE i \in 1..k : at(i) \in free /\ \A j \in 1..(i - 1) : at(j) \notin free
    IN  at(i0)

-----------------------------------------------------------------------------
(* IPAllocator.run: the search loop *)

\* a run() whose max is size - 1: the broadcast position is searched too
runLocalsWide(n) ==
    LET firstIP == networkRange(n)[1]
    IN  IF IsV4(n.IP)
        THEN [ipNum |-> ipToInt(firstIP), ownIP |-> ipToInt(n.IP),
              max |-> networkSize(n.Mask) - 1]
        ELSE [ipNum6 |-> ip6ToInt(firstIP)[1], ipNum6a |-> ip6ToInt(firstIP)[2],
              ownIP6a |-> ip6ToInt(n.IP)[2],
              max |-> U64Small(networkSize6(n.Mask)[2]) + 1]

\* run(): the locals set before the outer loop
runLocals(n) ==
    LET firstIP == networkRange(n)[1]
    IN  IF IsV4(n.IP)
        THEN [ipNum |-> ipToInt(firstIP), ownIP |-> ipToInt(n.IP),
              max |-> networkSize(n.Mask) - 2]
        ELSE [ipNum6 |-> ip6ToInt(firstIP)[1], ipNum6a |-> ip6ToInt(firstIP)[2],
              ownIP6a |-> ip6ToInt(n.IP)[2],
              max |-> U64Small(networkSize6(n.Mask)[2])]

\* runLocals, computed once for each network of the model
RunLocals == [n \in TableNetworks |-> runLocals(n)]

\* IPv4 branch, the for loop over attempt
RECURSIVE searchLoop4(_, _, _, _, _, _)
searchLoop4(c, used, attempt, newNum, p, flag) ==
    IF attempt >= c.max THEN [newNum |-> newNum, pos |-> p, inUse |-> flag]
    ELSE LET n  == c.ipNum + p
             p2 == GoMod(p, c.max) + 1
         IN  IF n = c.ownIP
             THEN searchLoop4(c, used, attempt + 1, n, p2, flag)
             ELSE IF intToIP(n) \notin used
                  THEN [newNum |-> n, pos |-> p2, inUse |-> FALSE]
                  ELSE searchLoop4(c, used, attempt + 1, n, p2, TRUE)

search4(n, p, used) ==
    LET r == searchLoop4(RunLocals[n], used, 0, 0, p, FALSE)
    IN  [pos |-> r.pos, ip |-> intToIP(r.newNum), err |-> r.inUse]

\* IPv6 branch; max is the low half of networkSize6, newNum6/newNum6a start at 0
RECURSIVE searchLoop6(_, _, _, _, _, _, _)
searchLoop6(c, used, attempt, newNum6, newNum6a, p, flag) ==
    IF attempt >= c.max
    THEN [newNum6 |-> newNum6, newNum6a |-> newNum6a, pos |-> p, inUse |-> flag]
    ELSE LET a  == U64Add(c.ipNum6a, p)
             p2 == (p % c.max) + 1
         IN  IF a = c.ownIP6a
             THEN searchLoop6(c, used, attempt + 1, c.ipNum6, a, p2, flag)
             ELSE IF intToIP6(c.ipNum6, a) \notin used
                  THEN [newNum6 |-> c.ipNum6, newNum6a |-> a, pos |-> p2, inUse |-> FALSE]
                  ELSE searchLoop6(c, used, attempt + 1, c.ipNum6, a, p2, TRUE)

search6(n, p, used) ==
    LET r == searchLoop6(RunLocals[n], used, 0, U64Zero, U64Zero, p, FALSE)
    IN  [pos |-> r.pos, ip |-> intToIP6(r.newNum6, r.newNum6a), err |-> r.inUse]

\* the search of one iteration of run's outer loop, up to the select
search(n, p, used) == IF IsV4(n.IP) THEN search4(n, p, used) ELSE search6(n, p, used)

\* a release branch that leaves pos where the search left it
releasedPosStay(n, p, offerErr, released) ==
    LET c == RunLocals[n]
    IN  IF offerErr
        THEN IF IsV4(n.IP) THEN ipToInt(released) - c.ipNum
             ELSE U64Small(U64Sub(ip6ToInt(released)[2], c.ipNum6a))
        ELSE p

\* case released := <-alloc.queueReleased: the new pos
releasedPos(n, p, offerErr, released) ==
    LET c == RunLocals[n]
    IN  IF offerErr
        THEN IF IsV4(n.IP) THEN ipToInt(released) - c.ipNum
             ELSE U64Small(U64Sub(ip6ToInt(released)[2], c.ipNum6a))
        ELSE IF p = 1 THEN c.max ELSE p - 1

\* case released := <-alloc.queueReleased: the key deleted from alloc.inUse
releasedKey(n, released) ==
    IF IsV4(n.IP) THEN intToIP(ipToInt(released)) ELSE released

-----------------------------------------------------------------------------
(* The channel-based IPAllocator and its callers *)

NoOp == [op |-> "none", ip |-> NoIP, err |-> FALSE,
         wasHeld |-> FALSE, wasFree |-> FALSE, hadFree |-> FALSE]

Holders == UNION {held[c] : c \in Callers}

\* allocable addresses that alloc.inUse does not hold
FreeNow == AllocableOf[network] \ inUse

\* newIPAllocator: the struct's fields and the start of run()
InitAlloc(n) ==
    /\ network = n
    /\ inUse = {}
    /\ pos = 1
    /\ offer = [ip |-> NoIP, err |-> FALSE]
    /\ runPc = "search"
    /\ last = NoOp
    /\ fresh = TRUE
    /\ nAcq = 0
    /\ phase = "none"
    /\ relFirst = NoIP
    /\ prevAcq = NoIP

InitCallers ==
    /\ callPc = [c \in Callers |-> "idle"]
    /\ callArg = [c \in Callers |-> NoIP]
    /\ held = [c \in Callers |-> {}]

\* module-level allocator not in use
InitNoModule ==
    /\ address = TestNet
    /\ allocatedIPs = << >>
    /\ availableIPS = << >>
    /\ mheld = {}
    /\ mlast = NoOp
    /\ relOrder = <<>>
    /\ everUsed = {}

\* the first port of the range the fountain cycles through
portRangeStart == 49153

\* the ports of the range: portRangeEnd is exclusive, and the range is cut down
\* to RangeLen ports
RangeLen == 3

portRangeEnd == portRangeStart + RangeLen

PortRange == portRangeStart..(portRangeEnd - 1)

\* the port TestPortAllocation acquires by number: outside the range
TestPort == 80

\* the ports callers name in Acquire(port) and Release(port)
NamedPorts == PortRange \cup {TestPort}

NoPortOp == [op |-> "none", c |-> 0, port |-> 0, ret |-> 0, err |-> FALSE,
             before |-> {}, from |-> 0, waited |-> FALSE]

\* newPortAllocator(): empty inUse, both channels open, runFountain started
InitPortAllocator ==
    /\ inUsePorts = {}
    /\ fountainPort = portRangeStart
    /\ fountainPc = "select"
    /\ quitClosed = FALSE
    /\ fountainClosed = FALSE
    /\ portPc = [c \in Callers |-> "idle"]
    /\ portCand = [c \in Callers |-> 0]
    /\ portFrom = [c \in Callers |-> 0]
    /\ atClose = [c \in Callers |-> FALSE]
    /\ nClose = 0
    /\ portLast = NoPortOp
    /\ acqSince = [p \in NamedPorts |-> 0]
    /\ relPort = 0
    /\ sinceRel = 0

\* host ports that callers map, backends they map them to, and the number of
\* equal rules the kernel is let to hold
MaxMapPort == 1

NumBackends == 2

MaxRules == 1

Protos == {"tcp", "udp"}

MapPorts == 1..MaxMapPort

Backends == 1..NumBackends

\* the value of a table at a port it has no entry for
NoBackend == 0

\* the rules Chain.Forward writes: DNAT by protocol, host port and backend,
\* FORWARD ACCEPT by protocol and backend
NatKeys == Protos \X MapPorts \X Backends

FwdKeys == Protos \X Backends

NoMapOp == [op |-> "none", proto |-> "tcp", port |-> 0, err |-> FALSE,
            wasMapped |-> FALSE, filterCalls |-> 0, proxyCalls |-> 0,
            failedAt |-> "none"]

\* newPortMapper(): empty tables, the chain if config.EnableIptables; the
\* kernel holds no rule of the chain
InitPortMapper(chain) ==
    /\ tcpMapping = [port \in MapPorts |-> NoBackend]
    /\ tcpProxies = {}
    /\ udpMapping = [port \in MapPorts |-> NoBackend]
    /\ udpProxies = {}
    /\ iptables = chain
    /\ natRules = [k \in NatKeys |-> 0]
    /\ fwdRules = [k \in FwdKeys |-> 0]
    /\ mapLast = NoMapOp

NoMapCall == [pc |-> "idle", proto |-> "tcp", port |-> 0, backend |-> NoBackend,
              undo |-> FALSE]

\* interfaces a manager hands out, and port mappings they record in all
NumIfaces == 2

MaxNats == 2

Ifaces == 1..NumIfaces

NoIface == [state |-> "none", disabled |-> FALSE, ip |-> NoIP, ip6 |-> NoIP,
            extPorts |-> << >>]

NoFnCall == [fn |-> "none"]

\* a host without routes, nameservers or bridge: addr4 is the index in addrs4
\* of the bridge's IPv4 address, addrs6 the number of its IPv6 addresses
NoHost == [routes |-> {}, nameservers |-> {}, exists |-> FALSE, addr4 |-> 0,
           addrs6 |-> 0, rules |-> 0]

\* what a call of CreateBridgeIface did
NoCreate == [called |-> FALSE, err |-> FALSE, routesRead |-> FALSE,
             ifaceAddr |-> 0, iface6Addr |-> 0, seed |-> 0,
             routes |-> {}, linkAdds |-> 0, raws |-> 0]

NoBoot == [pc |-> "none", creates |-> 0, enableIptables |-> FALSE,
           create |-> NoCreate]

NoMgrOp == [op |-> "none", i |-> 0, err |-> FALSE, at |-> "none", proto |-> "tcp",
            port |-> 0, nats |-> << >>, log |-> << >>, ip |-> NoIP, ip6 |-> NoIP,
            discarded |-> NoIP, hostPort |-> 0]

\* newNetworkManager(): the allocators of the two bridge networks, no interface
InitManagerOn(n6, off) ==
    /\ mapCall = [c \in Callers |-> NoMapCall]
    /\ disabled = off
    /\ network6 = n6
    /\ inUse6 = {}
    /\ pos6 = 1
    /\ udpInUse = {}
    /\ udpFountain = portRangeStart
    /\ ifaces = [i \in Ifaces |-> NoIface]
    /\ mgrClosed = FALSE
    /\ mgrPanic = FALSE
    /\ mgrLast = NoMgrOp
    /\ refused = 0
    /\ fnCall = NoFnCall
    /\ host = NoHost
    /\ boot = NoBoot

\* no goroutine is inside the manager, an interface or the mapper
InitManager == InitManagerOn(TestNet6, FALSE)

\* port allocator and port mapper constructed and not called
InitRest ==
    /\ InitPortAllocator
    /\ InitPortMapper("nil")
    /\ InitManager

\* run(): the for loop that looks for an unused IP, then the allocatedIP value
Search ==
    /\ runPc = "search"
    /\ LET r == search(network, pos, inUse)
       IN  /\ pos' = r.pos
           /\ offer' = [ip |-> r.ip, err |-> r.err]
    /\ runPc' = "select"
    /\ UNCHANGED <<network, inUse, callPc, callArg, held, last, fresh, nAcq,
                   phase, relFirst, prevAcq>>
    /\ UNCHANGED modVars
    /\ UNCHANGED restVars

\* case alloc.queueAlloc <- ip, received by caller c's Acquire
allocSent(c) ==
    /\ runPc = "select"
    /\ inUse' = inUse \cup {offer.ip}
    /\ runPc' = "search"
    /\ held' = [held EXCEPT ![c] = IF offer.err THEN @ ELSE @ \cup {offer.ip}]
    /\ last' = [op |-> "Acquire", ip |-> offer.ip, err |-> offer.err,
                wasHeld |-> offer.ip \in Holders, wasFree |-> offer.ip \in FreeNow,
                hadFree |-> FreeNow # {}]
    /\ nAcq' = IF fresh /\ nAcq < MaxCount THEN nAcq + 1 ELSE nAcq
    /\ phase' = IF phase \in {"released", "reacq"} /\ ~offer.err THEN "reacq" ELSE "none"
    /\ prevAcq' = IF phase = "reacq" THEN last.ip ELSE NoIP
    /\ relFirst' = IF phase' = "reacq" THEN relFirst ELSE NoIP
    /\ UNCHANGED <<network, pos, offer, fresh>>

\* case released := <-alloc.queueReleased, sent by caller c's Release(ip)
releasedReceived(c, ip) ==
    /\ runPc = "select"
    /\ inUse' = inUse \ {releasedKey(network, ip)}
    /\ pos' = releasedPos(network, pos, offer.err, ip)
    /\ runPc' = "search"
    /\ held' = [held EXCEPT ![c] = @ \ {ip}]
    /\ last' = [op |-> "Release", ip |-> ip, err |-> FALSE,
                wasHeld |-> ip \in Holders, wasFree |-> ip \in FreeNow,
                hadFree |-> FreeNow # {}]
    /\ fresh' = FALSE
    /\ nAcq' = 0
    /\ phase' = IF FreeNow = {} \/ phase = "released" THEN "released" ELSE "none"
    /\ relFirst' = IF FreeNow = {} THEN ip
                   ELSE IF phase = "released" THEN relFirst ELSE NoIP
    /\ prevAcq' = NoIP
    /\ UNCHANGED <<network, offer>>

\* a caller enters IPAllocator.Acquire and blocks on the receive
CallAcquire(c) ==
    /\ callPc[c] = "idle"
    /\ callPc' = [callPc EXCEPT ![c] = "Acquire"]
    /\ UNCHANGED <<network, inUse, pos, offer, runPc, callArg, held, last, fresh,
                   nAcq, phase, relFirst, prevAcq>>
    /\ UNCHANGED modVars
    /\ UNCHANGED restVars

\* a caller enters IPAllocator.Release with an address it holds and blocks on the send
CallRelease(c, ip) ==
    /\ callPc[c] = "idle"
    /\ ip \in held[c]
    /\ callPc' = [callPc EXCEPT ![c] = "Release"]
    /\ callArg' = [callArg EXCEPT ![c] = ip]
    /\ UNCHANGED <<network, inUse, pos, offer, runPc, held, last, fresh,
                   nAcq, phase, relFirst, prevAcq>>
    /\ UNCHANGED modVars
    /\ UNCHANGED restVars

\* the rendezvous on queueAlloc: run's send and the return of Acquire
SendAlloc(c) ==
    /\ callPc[c] = "Acquire"
    /\ allocSent(c)
    /\ callPc' = [callPc EXCEPT ![c] = "idle"]
    /\ UNCHANGED callArg
    /\ UNCHANGED modVars
    /\ UNCHANGED restVars

\* the rendezvous on queueReleased: the send of Release and run's receive
RecvReleased(c) ==
    /\ callPc[c] = "Release"
    /\ releasedPos(network, pos, offer.err, callArg[c]) >= 0 - MaxBelow
    /\ releasedReceived(c, callArg[c])
    /\ callPc' = [callPc EXCEPT ![c] = "idle"]
    /\ callArg' = [callArg EXCEPT ![c] = NoIP]
    /\ UNCHANGED modVars
    /\ UNCHANGED restVars

InitChan ==
    /\ \E n \in ChanNetworks : InitAlloc(n)
    /\ InitCallers
    /\ InitNoModule
    /\ InitRest

NextChan ==
    \/ Search
    \/ \E c \in Callers : CallAcquire(c)
    \/ \E c \in Callers : \E ip \in held[c] : CallRelease(c, ip)
    \/ \E c \in Callers : SendAlloc(c)
    \/ \E c \in Callers : RecvReleased(c)

SpecChan == InitChan /\ [][NextChan]_vars

\* One caller, whose calls follow one another as in TestIPAllocator and
\* TestIPAllocator6: it can make every sequence of Acquire and of Release of a
\* held address that run can serve
InitSeq ==
    /\ \E n \in AllNetworks : InitAlloc(n)
    /\ InitCallers
    /\ InitNoModule
    /\ InitRest

NextSeq ==
    \/ Search
    \/ CallAcquire(1)
    \/ \E ip \in held[1] : CallRelease(1, ip)
    \/ SendAlloc(1)
    \/ RecvReleased(1)

SpecSeq == InitSeq /\ [][NextSeq]_vars

\* The single caller also passes to Release addresses it does not hold: the
\* network address, the broadcast address, the gateway, the address after
\* the last one of the subnet, and addresses nobody acquired
StrayNetworks == {MidNet, SmallNet, MidNet6}

StrayAddrs(n) ==
    {AddrAt(n, p) : p \in 0..HostCount(n)} \cup {n.IP}

StrayOf == [n \in StrayNetworks |-> StrayAddrs(n)]

\* a caller enters IPAllocator.Release with any address and blocks on the send
CallReleaseAny(c, ip) ==
    /\ callPc[c] = "idle"
    /\ ip \in StrayOf[network]
    /\ callPc' = [callPc EXCEPT ![c] = "Release"]
    /\ callArg' = [callArg EXCEPT ![c] = ip]
    /\ UNCHANGED <<network, inUse, pos, offer, runPc, held, last, fresh,
                   nAcq, phase, relFirst, prevAcq>>
    /\ UNCHANGED modVars
    /\ UNCHANGED restVars

InitStray ==
    /\ \E n \in StrayNetworks : InitAlloc(n)
    /\ InitCallers
    /\ InitNoModule
    /\ InitRest

NextStray ==
    \/ Search
    \/ CallAcquire(1)
    \/ \E ip \in StrayOf[network] : CallReleaseAny(1, ip)
    \/ SendAlloc(1)
    \/ RecvReleased(1)

SpecStray == InitStray /\ [][NextStray]_vars

-----------------------------------------------------------------------------
(* collections.OrderedIntSet, as section 4.2 of the specification describes  *)
(* it: the set is the sequence of its elements, oldest first                 *)

Exists(set, k) == \E i \in 1..Len(set) : set[i] = k

\* append to the tail; a no-op when k is present
Push(set, k) == IF Exists(set, k) THEN set ELSE Append(set, k)

\* remove and return the head; the sentinel 0 when empty
Pop(set) ==
    IF set = <<>> THEN [v |-> 0, set |-> set] ELSE [v |-> Head(set), set |-> Tail(set)]

\* the tail, not removed; 0 when empty
PullBack(set) == IF set = <<>> THEN 0 ELSE set[Len(set)]

\* unlink k if present
Remove(set, k) == SelectSeq(set, LAMBDA x : x # k)

-----------------------------------------------------------------------------
(* The module-level allocator (package ipallocator) *)

\* networkdriver.NetworkRange, on the 4 bytes of network.IP.To4()
NetworkRange(n) ==
    << IPBytes([i \in 1..4 |-> And8(n.IP[i], n.Mask[i], 8)], 4),
       IPBytes([i \in 1..4 |-> Or8(n.IP[i], Not8(n.Mask[i]))], 4) >>

\* networkdriver.NetworkSize
NetworkSize(mask) == ipToInt([i \in 1..4 |-> Not8(mask[i])]) + 1

\* every address of the subnet, from the network address to the broadcast address
SubnetAddrs(n) == {AddrAt(n, p) : p \in 0..(HostCount(n) - 1)}

\* SubnetAddrs, computed once for each IPv4 network of the model
SubnetOf == [n \in Networks4 |-> SubnetAddrs(n)]

\* checkAddress: the two sets of a network are created on its first use
checkAddress(sets, key) ==
    IF key \in DOMAIN sets THEN sets ELSE (key :> <<>>) @@ sets

\* getPosition
getPosition(a, ip) == ipToInt(ip) - ipToInt(NetworkRange(a)[1])

\* getNextIp: the var block
nextIpLocals(a) ==
    [ownIP |-> ipToInt(a.IP), base |-> ipToInt(NetworkRange(a)[1]),
     max |-> NetworkSize(a.Mask) - 2,
     firstAsInt |-> ipToInt(NetworkRange(a)[1]) + 1]

\* nextIpLocals, computed once for each IPv4 network of the model
NextIpLocals == [a \in Networks4 |-> nextIpLocals(a)]

\* getNextIp: the for loop of the sweep
RECURSIVE sweepLoop(_, _, _, _, _)
sweepLoop(c, allocated, available, i, p) ==
    IF i >= c.max
    THEN [ip |-> NoIP, err |-> TRUE, allocated |-> allocated, available |-> available]
    ELSE LET p2   == GoMod(p, c.max) + 1
             next == c.base + p2
         IN  IF next = c.ownIP \/ next = c.firstAsInt
             THEN sweepLoop(c, allocated, available, i + 1, p2)
             ELSE IF ~Exists(allocated, p2)
                  THEN [ip |-> intToIP(next), err |-> FALSE,
                        allocated |-> Push(allocated, p2), available |-> available]
                  ELSE sweepLoop(c, allocated, available, i + 1, p2)

\* a getNextIp that never looks at the available pool
getNextIpSweepOnly(a, allocated, available) ==
    sweepLoop(NextIpLocals[a], allocated, available, 0, PullBack(allocated))

\* getNextIp: the head of available if there is one, else the sweep
getNextIp(a, allocated, available) ==
    LET c      == NextIpLocals[a]
        popped == Pop(available)
    IN  IF popped.v # 0
        THEN [ip |-> intToIP(c.base + popped.v), err |-> FALSE,
              allocated |-> Push(allocated, popped.v), available |-> popped.set]
        ELSE sweepLoop(c, allocated, popped.set, 0, PullBack(allocated))

\* registerIP
registerIP(a, ip, allocated, available) ==
    LET p == getPosition(a, ip)
    IN  IF Exists(allocated, p)
        THEN [ip |-> NoIP, err |-> TRUE, allocated |-> allocated, available |-> available]
        ELSE [ip |-> ip, err |-> FALSE,
              allocated |-> allocated, available |-> Remove(available, p)]

MNoOp == [op |-> "none", explicit |-> FALSE, ip |-> NoIP, err |-> FALSE,
          wasHeld |-> FALSE, hadPool |-> FALSE, poolHead |-> NoIP, wasUsed |-> FALSE]

\* the package variables before any call, for callers that pass network a
InitModule(a) ==
    /\ address = a
    /\ allocatedIPs = [k \in {} |-> <<>>]
    /\ availableIPS = [k \in {} |-> <<>>]
    /\ mheld = {}
    /\ mlast = MNoOp
    /\ relOrder = <<>>
    /\ everUsed = {}

\* RequestIP(address, ip), under the lock; ip = NoIP is the nil request
requestIP(ip) ==
    LET al == checkAddress(allocatedIPs, address)
        av == checkAddress(availableIPS, address)
        r  == IF ip = NoIP THEN getNextIp(address, al[address], av[address])
              ELSE registerIP(address, ip, al[address], av[address])
    IN  /\ allocatedIPs' = [al EXCEPT ![address] = r.allocated]
        /\ availableIPS' = [av EXCEPT ![address] = r.available]
        /\ mheld' = IF r.err THEN mheld ELSE mheld \cup {r.ip}
        /\ mlast' = [op |-> "RequestIP", explicit |-> ip # NoIP, ip |-> r.ip,
                     err |-> r.err,
                     wasHeld |-> (IF ip = NoIP THEN r.ip ELSE ip) \in mheld,
                     hadPool |-> relOrder # <<>>,
                     poolHead |-> IF relOrder = <<>> THEN NoIP ELSE Head(relOrder),
                     wasUsed |-> r.ip \in everUsed]
        /\ relOrder' = IF r.err THEN relOrder
                       ELSE SelectSeq(relOrder, LAMBDA x : x # r.ip)
        /\ everUsed' = IF r.err THEN everUsed ELSE everUsed \cup {r.ip}
        /\ UNCHANGED address

\* ReleaseIP(address, ip), under the lock
releaseIP(ip) ==
    LET al == checkAddress(allocatedIPs, address)
        av == checkAddress(availableIPS, address)
        p  == getPosition(address, ip)
    IN  /\ allocatedIPs' = [al EXCEPT ![address] = Remove(@, p)]
        /\ availableIPS' = [av EXCEPT ![address] = Push(@, p)]
        /\ mheld' = mheld \ {ip}
        /\ mlast' = [MNoOp EXCEPT !.op = "ReleaseIP", !.ip = ip,
                                  !.wasHeld = ip \in mheld]
        /\ relOrder' = IF \E i \in 1..Len(relOrder) : relOrder[i] = ip
                       THEN relOrder ELSE Append(relOrder, ip)
        /\ UNCHANGED <<address, everUsed>>

RequestIP(ip) == requestIP(ip) /\ UNCHANGED chanVars /\ UNCHANGED restVars

ReleaseIP(ip) == releaseIP(ip) /\ UNCHANGED chanVars /\ UNCHANGED restVars

\* the channel-based allocator is not used
InitMod ==
    /\ \E a \in Networks4 : InitModule(a)
    /\ InitAlloc(TestNet)
    /\ InitCallers
    /\ InitRest

\* the same on the networks of four addresses or fewer
InitModSmall ==
    /\ \E a \in Networks4 \ {TestNet} : InitModule(a)
    /\ InitAlloc(TestNet)
    /\ InitCallers
    /\ InitRest

\* callers that request with nil and release what they were given
NextMod ==
    \/ RequestIP(NoIP)
    \/ \E ip \in mheld : ReleaseIP(ip)

SpecMod == InitMod /\ [][NextMod]_vars

\* callers that also request addresses of the subnet by name
NextModReq ==
    \/ RequestIP(NoIP)
    \/ \E ip \in SubnetOf[address] : RequestIP(ip)
    \/ \E ip \in mheld : ReleaseIP(ip)

SpecModReq == InitModSmall /\ [][NextModReq]_vars

\* callers that request with nil and release any address of the subnet
NextModRel ==
    \/ RequestIP(NoIP)
    \/ \E ip \in SubnetOf[address] : ReleaseIP(ip)

SpecModRel == InitModSmall /\ [][NextModRel]_vars

-----------------------------------------------------------------------------
(* The two allocators side by side: one caller makes the same call on both *)

InitEq ==
    /\ \E n \in Networks4 : InitAlloc(n) /\ InitModule(n)
    /\ InitCallers
    /\ InitRest

\* Acquire on the channel-based allocator and RequestIP(network, nil)
EqAcquire ==
    /\ callPc[1] = "idle"
    /\ allocSent(1)
    /\ requestIP(NoIP)
    /\ UNCHANGED <<callPc, callArg>>
    /\ UNCHANGED restVars

\* Release and ReleaseIP of an address both allocators have handed out
EqRelease(ip) ==
    /\ callPc[1] = "idle"
    /\ releasedPos(network, pos, offer.err, ip) >= 0 - MaxBelow
    /\ releasedReceived(1, ip)
    /\ releaseIP(ip)
    /\ UNCHANGED <<callPc, callArg>>
    /\ UNCHANGED restVars

NextEq ==
    \/ Search
    \/ EqAcquire
    \/ \E ip \in held[1] \cap mheld : EqRelease(ip)

SpecEq == InitEq /\ [][NextEq]_vars

-----------------------------------------------------------------------------
(* PortAllocator: the fountain goroutine, Acquire, Release and Close *)

\* calls of Close that callers can begin
MaxClose == 2

\* a fountain that emits the same port again and again
nextPortStuck(port) == port

\* runFountain(): port++ in the inner loop, and the outer loop that restarts it
nextPort(port) == IF port + 1 < portRangeEnd THEN port + 1 ELSE portRangeStart

\* an Acquire that records the port without looking it up
acquireUnchecked(port, used) ==
    [ret |-> port, err |-> FALSE, inUse |-> used \cup {port}]

\* an Acquire that looks the port up and does not record it
acquireUnrecorded(port, used) ==
    IF port \in used
    THEN [ret |-> -1, err |-> TRUE, inUse |-> used]
    ELSE [ret |-> port, err |-> FALSE, inUse |-> used]

\* Acquire(port), port # 0: the part under the lock
acquire(port, used) ==
    IF port \in used
    THEN [ret |-> -1, err |-> TRUE, inUse |-> used]
    ELSE [ret |-> port, err |-> FALSE, inUse |-> used \cup {port}]

\* a Release that leaves the map alone
releaseKept(port, used) == used

\* Release(port): delete(alloc.inUse, port)
release(port, used) == used \ {port}

\* a panic ends the process: no goroutine takes a step after it
NoPanic == \A c \in Callers : portPc[c] # "panic"

\* the first port not in used among the n ports that follow port - 1 in
\* ascending order, the first port of the range following the last; 0 if none
RECURSIVE NextFreePort(_, _, _)
NextFreePort(port, used, n) ==
    IF n = 0 THEN 0
    ELSE IF port \notin used THEN port
    ELSE NextFreePort(portRangeStart + ((port - portRangeStart + 1) % RangeLen),
                      used, n - 1)

Saturate(n, max) == IF n < max THEN n + 1 ELSE max

\* a caller enters Acquire(0) and blocks in range alloc.fountain
PortAcquireAny(c) ==
    /\ NoPanic
    /\ portPc[c] = "idle"
    /\ portPc' = [portPc EXCEPT ![c] = "range"]
    /\ portFrom' = [portFrom EXCEPT ![c] = fountainPort]
    /\ UNCHANGED <<inUsePorts, fountainPort, fountainPc, quitClosed, fountainClosed,
                   portCand, atClose, nClose, portLast, acqSince, relPort, sinceRel>>
    /\ UNCHANGED <<chanVars, modVars, mapVars, mgrVars>>

\* runFountain(): case alloc.fountain <- port, received by c's range loop
FountainSend(c) ==
    /\ NoPanic
    /\ fountainPc = "select"
    /\ ~fountainClosed
    /\ portPc[c] = "range"
    /\ portCand' = [portCand EXCEPT ![c] = fountainPort]
    /\ portPc' = [portPc EXCEPT ![c] = "try"]
    /\ fountainPort' = nextPort(fountainPort)
    /\ sinceRel' = IF relPort # 0 THEN Saturate(sinceRel, RangeLen + 1) ELSE sinceRel
    /\ UNCHANGED <<inUsePorts, fountainPc, quitClosed, fountainClosed, portFrom,
                   atClose, nClose, portLast, acqSince, relPort>>
    /\ UNCHANGED <<chanVars, modVars, mapVars, mgrVars>>

\* Acquire(0): the body of the range loop, alloc.Acquire(port) on the port received
AcquireReceived(c) ==
    /\ NoPanic
    /\ portPc[c] = "try"
    /\ LET r == acquire(portCand[c], inUsePorts)
       IN  /\ inUsePorts' = r.inUse
           /\ IF r.err
              THEN /\ portPc' = [portPc EXCEPT ![c] = "range"]
                   /\ UNCHANGED <<portLast, acqSince, relPort, sinceRel, portFrom,
                                  atClose>>
              ELSE /\ portPc' = [portPc EXCEPT ![c] = "idle"]
                   /\ portLast' = [op |-> "Acquire0", c |-> c, port |-> 0,
                                   ret |-> portCand[c], err |-> FALSE,
                                   before |-> inUsePorts, from |-> portFrom[c],
                                   waited |-> atClose[c]]
                   /\ acqSince' = [acqSince EXCEPT ![portCand[c]] = Saturate(@, 2)]
                   /\ relPort' = IF portCand[c] = relPort THEN 0 ELSE relPort
                   /\ sinceRel' = IF portCand[c] = relPort THEN 0 ELSE sinceRel
                   /\ portFrom' = [portFrom EXCEPT ![c] = 0]
                   /\ atClose' = [atClose EXCEPT ![c] = FALSE]
    /\ portCand' = [portCand EXCEPT ![c] = 0]
    /\ UNCHANGED <<fountainPort, fountainPc, quitClosed, fountainClosed, nClose>>
    /\ UNCHANGED <<chanVars, modVars, mapVars, mgrVars>>

\* a range loop that may end while the fountain is open
rangeEndsAnyTime(closed) == TRUE

\* for port := range alloc.fountain: the loop ends when the channel is closed
rangeEnds(closed) == closed

\* Acquire(0): the range loop ends on the closed fountain, and the error return
FountainEnded(c) ==
    /\ NoPanic
    /\ portPc[c] = "range"
    /\ rangeEnds(fountainClosed)
    /\ portPc' = [portPc EXCEPT ![c] = "idle"]
    /\ portLast' = [op |-> "Acquire0", c |-> c, port |-> 0, ret |-> -1, err |-> TRUE,
                    before |-> inUsePorts, from |-> portFrom[c],
                    waited |-> atClose[c]]
    /\ portFrom' = [portFrom EXCEPT ![c] = 0]
    /\ atClose' = [atClose EXCEPT ![c] = FALSE]
    /\ UNCHANGED <<inUsePorts, fountainPort, fountainPc, quitClosed, fountainClosed,
                   portCand, nClose, acqSince, relPort, sinceRel>>
    /\ UNCHANGED <<chanVars, modVars, mapVars, mgrVars>>

\* Acquire(port) with a port named by the caller
PortAcquire(c, port) ==
    /\ NoPanic
    /\ portPc[c] = "idle"
    /\ LET r == acquire(port, inUsePorts)
       IN  /\ inUsePorts' = r.inUse
           /\ portLast' = [op |-> "Acquire", c |-> c, port |-> port, ret |-> r.ret,
                           err |-> r.err, before |-> inUsePorts, from |-> 0,
                           waited |-> FALSE]
           /\ acqSince' = IF r.err THEN acqSince
                          ELSE [acqSince EXCEPT ![port] = Saturate(@, 2)]
    /\ relPort' = IF port = relPort THEN 0 ELSE relPort
    /\ sinceRel' = IF port = relPort THEN 0 ELSE sinceRel
    /\ UNCHANGED <<fountainPort, fountainPc, quitClosed, fountainClosed, portPc,
                   portCand, portFrom, atClose, nClose>>
    /\ UNCHANGED <<chanVars, modVars, mapVars, mgrVars>>

\* Release(port)
PortRelease(c, port) ==
    /\ NoPanic
    /\ portPc[c] = "idle"
    /\ inUsePorts' = release(port, inUsePorts)
    /\ portLast' = [op |-> "Release", c |-> c, port |-> port, ret |-> 0,
                    err |-> FALSE, before |-> inUsePorts, from |-> 0,
                    waited |-> FALSE]
    /\ acqSince' = [acqSince EXCEPT ![port] = 0]
    /\ relPort' = IF port \in PortRange /\ port \in inUsePorts THEN port ELSE 0
    /\ sinceRel' = 0
    /\ UNCHANGED <<fountainPort, fountainPc, quitClosed, fountainClosed, portPc,
                   portCand, portFrom, atClose, nClose>>
    /\ UNCHANGED <<chanVars, modVars, mapVars, mgrVars>>

\* NetworkManager.Close calls tcpPortAllocator.Close first: the caller enters
\* PortAllocator.Close and blocks on alloc.quit <- true
PortClose(c) ==
    /\ NoPanic
    /\ portPc[c] = "idle"
    /\ nClose < MaxClose
    /\ nClose' = nClose + 1
    /\ portPc' = [portPc EXCEPT ![c] = "quit"]
    /\ atClose' = [d \in Callers |-> atClose[d] \/ portPc[d] = "range"]
    /\ UNCHANGED <<inUsePorts, fountainPort, fountainPc, quitClosed, fountainClosed,
                   portCand, portFrom, portLast, acqSince, relPort, sinceRel>>
    /\ UNCHANGED <<chanVars, modVars, mapVars, mgrVars>>

\* runFountain(): case quit := <-alloc.quit, sent by c's Close; quit is true
QuitReceived(c) ==
    /\ NoPanic
    /\ fountainPc = "select"
    /\ ~quitClosed
    /\ portPc[c] = "quit"
    /\ fountainPc' = "returned"
    /\ portPc' = [portPc EXCEPT ![c] = "closeQuit"]
    /\ UNCHANGED <<inUsePorts, fountainPort, quitClosed, fountainClosed, portCand,
                   portFrom, atClose, nClose, portLast, acqSince, relPort, sinceRel>>
    /\ UNCHANGED <<chanVars, modVars, mapVars, mgrVars>>

\* Close: alloc.quit <- true on a closed channel panics
QuitSendPanics(c) ==
    /\ NoPanic
    /\ portPc[c] = "quit"
    /\ quitClosed
    /\ portPc' = [portPc EXCEPT ![c] = "panic"]
    /\ UNCHANGED <<inUsePorts, fountainPort, fountainPc, quitClosed, fountainClosed,
                   portCand, portFrom, atClose, nClose, portLast, acqSince, relPort,
                   sinceRel>>
    /\ UNCHANGED <<chanVars, modVars, mapVars, mgrVars>>

\* Close: close(alloc.quit)
CloseQuit(c) ==
    /\ NoPanic
    /\ portPc[c] = "closeQuit"
    /\ quitClosed' = TRUE
    /\ portPc' = [portPc EXCEPT ![c] = IF quitClosed THEN "panic" ELSE "closeFountain"]
    /\ UNCHANGED <<inUsePorts, fountainPort, fountainPc, fountainClosed, portCand,
                   portFrom, atClose, nClose, portLast, acqSince, relPort, sinceRel>>
    /\ UNCHANGED <<chanVars, modVars, mapVars, mgrVars>>

\* a Close that returns and leaves the fountain channel open
closeFountainSkipped(closed) == closed

\* Close: close(alloc.fountain)
closeFountain(closed) == TRUE

\* Close: close(alloc.fountain) and return nil
CloseFountain(c) ==
    /\ NoPanic
    /\ portPc[c] = "closeFountain"
    /\ fountainClosed' = closeFountain(fountainClosed)
    /\ portPc' = [portPc EXCEPT ![c] = IF fountainClosed THEN "panic" ELSE "idle"]
    /\ portLast' = IF fountainClosed THEN portLast
                   ELSE [op |-> "Close", c |-> c, port |-> 0, ret |-> 0,
                         err |-> FALSE, before |-> inUsePorts, from |-> 0,
                         waited |-> FALSE]
    /\ UNCHANGED <<inUsePorts, fountainPort, fountainPc, quitClosed, portCand,
                   portFrom, atClose, nClose, acqSince, relPort, sinceRel>>
    /\ UNCHANGED <<chanVars, modVars, mapVars, mgrVars>>

\* the IP allocators and the port mapper are not used
InitPort ==
    /\ InitAlloc(TestNet)
    /\ InitCallers
    /\ InitNoModule
    /\ InitRest

\* what the goroutines do once callers have made their calls
PortSteps(c) ==
    \/ FountainSend(c)
    \/ AcquireReceived(c)
    \/ FountainEnded(c)
    \/ QuitReceived(c)
    \/ QuitSendPanics(c)
    \/ CloseQuit(c)
    \/ CloseFountain(c)

\* several goroutines that acquire, release and close concurrently
NextPort ==
    \/ \E c \in Callers : PortAcquireAny(c)
    \/ \E c \in Callers : \E port \in NamedPorts : PortAcquire(c, port)
    \/ \E c \in Callers : \E port \in NamedPorts : PortRelease(c, port)
    \/ \E c \in Callers : PortClose(c)
    \/ \E c \in Callers : PortSteps(c)

SpecPort == InitPort /\ [][NextPort]_vars

\* one caller that does not close
NextPortSeq ==
    \/ PortAcquireAny(1)
    \/ \E port \in NamedPorts : PortAcquire(1, port)
    \/ \E port \in NamedPorts : PortRelease(1, port)
    \/ FountainSend(1)
    \/ AcquireReceived(1)

SpecPortSeq == InitPort /\ [][NextPortSeq]_vars

\* the ports of the range that no caller has
FreePorts == PortRange \ inUsePorts

\* Close is called once at most, so that no send finds alloc.quit closed, and
\* callers name ports of the range
NextPortOnce ==
    \/ \E c \in Callers : PortAcquireAny(c)
    \/ \E c \in Callers : \E port \in PortRange : PortAcquire(c, port)
    \/ \E c \in Callers : \E port \in PortRange : PortRelease(c, port)
    \/ \E c \in Callers : nClose = 0 /\ PortClose(c)
    \/ \E c \in Callers : FountainSend(c)
    \/ \E c \in Callers : AcquireReceived(c)
    \/ \E c \in Callers : FountainEnded(c)
    \/ \E c \in Callers : QuitReceived(c)
    \/ \E c \in Callers : CloseQuit(c)
    \/ \E c \in Callers : CloseFountain(c)

\* Every goroutine that can take a step takes one: the fountain serves a
\* receiver blocked in range and a sender blocked on quit, and a caller that
\* holds a port from the fountain goes on to try it. When callers make their
\* calls is left open.
PortFairness ==
    \A c \in Callers :
        /\ WF_vars(FountainSend(c))
        /\ WF_vars(AcquireReceived(c))
        /\ WF_vars(FountainEnded(c))
        /\ WF_vars(QuitReceived(c))
        /\ WF_vars(CloseQuit(c))
        /\ WF_vars(CloseFountain(c))

SpecPortFair == InitPort /\ [][NextPortOnce]_vars /\ PortFairness

-----------------------------------------------------------------------------
(* PortMapper: Map and Unmap, with the answers of the filter driver and of   *)
(* the proxy factory chosen freely                                           *)

\* what iptables answers to one command
Answers == {"ok", "fail"}

\* the count of a rule after a command the driver accepted
ruleCount(action, n) ==
    IF action = "Add" THEN n + 1 ELSE IF n > 0 THEN n - 1 ELSE 0

\* Chain.Forward: the DNAT rule, then the FORWARD rule; ans are the answers to
\* the two commands, and the first refusal ends the call
forward(action, proto, port, backend, ans, nat, fwd) ==
    LET nat1 == [nat EXCEPT ![<<proto, port, backend>>] = ruleCount(action, @)]
        fwd1 == [fwd EXCEPT ![<<proto, backend>>] = ruleCount(action, @)]
    IN  IF ans[1] = "fail"
        THEN [err |-> TRUE, at |-> "rule1", nat |-> nat, fwd |-> fwd, calls |-> 1]
        ELSE IF ans[2] = "fail"
        THEN [err |-> TRUE, at |-> "rule2", nat |-> nat1, fwd |-> fwd, calls |-> 2]
        ELSE [err |-> FALSE, at |-> "none", nat |-> nat1, fwd |-> fwd1, calls |-> 2]

\* mapper.iptables != nil guards every call of Forward
forwardIf(enabled, action, proto, port, backend, ans, nat, fwd) ==
    IF enabled THEN forward(action, proto, port, backend, ans, nat, fwd)
    ELSE [err |-> FALSE, at |-> "none", nat |-> nat, fwd |-> fwd, calls |-> 0]

\* Unmap on the tables of one protocol
unmap(proto, port, ans, enabled, mapping, proxies, nat, fwd) ==
    IF mapping[port] = NoBackend
    THEN [err |-> TRUE, at |-> "notMapped", mapping |-> mapping,
          proxies |-> proxies, nat |-> nat, fwd |-> fwd,
          filterCalls |-> 0, proxyCalls |-> 0]
    ELSE LET closed == IF port \in proxies THEN 1 ELSE 0
             f == forwardIf(enabled, "Delete", proto, port, mapping[port], ans,
                            nat, fwd)
         IN  IF f.err
             THEN [err |-> TRUE, at |-> "unmapRule", mapping |-> mapping,
                   proxies |-> proxies \ {port}, nat |-> f.nat, fwd |-> f.fwd,
                   filterCalls |-> f.calls, proxyCalls |-> closed]
             ELSE [err |-> FALSE, at |-> "none",
                   mapping |-> [mapping EXCEPT ![port] = NoBackend],
                   proxies |-> proxies \ {port}, nat |-> f.nat, fwd |-> f.fwd,
                   filterCalls |-> f.calls, proxyCalls |-> closed]

\* Map on the tables of one protocol; uans are the driver's answers to the
\* Unmap that follows a refusal of the proxy factory
map(proto, port, backend, ans, proxyOk, uans, enabled, mapping, proxies, nat, fwd) ==
    LET f == forwardIf(enabled, "Add", proto, port, backend, ans, nat, fwd)
        recorded == [mapping EXCEPT ![port] = backend]
        u == unmap(proto, port, uans, enabled, recorded, proxies, f.nat, f.fwd)
    IN  IF f.err
        THEN [err |-> TRUE, at |-> f.at, mapping |-> mapping, proxies |-> proxies,
              nat |-> f.nat, fwd |-> f.fwd, filterCalls |-> f.calls,
              proxyCalls |-> 0]
        ELSE IF ~proxyOk
        THEN [err |-> TRUE, at |-> "proxy", mapping |-> u.mapping,
              proxies |-> u.proxies, nat |-> u.nat, fwd |-> u.fwd,
              filterCalls |-> f.calls + u.filterCalls,
              proxyCalls |-> 1 + u.proxyCalls]
        ELSE [err |-> FALSE, at |-> "none", mapping |-> recorded,
              proxies |-> proxies \cup {port}, nat |-> f.nat, fwd |-> f.fwd,
              filterCalls |-> f.calls, proxyCalls |-> 1]

\* an Unmap that looks every port up in the TCP table
mappingOfTcp(proto) == tcpMapping

\* if proto == "tcp" { .. } else { .. }: the tables of the protocol
mappingOf(proto) == IF proto = "tcp" THEN tcpMapping ELSE udpMapping

proxiesOf(proto) == IF proto = "tcp" THEN tcpProxies ELSE udpProxies

\* the tables of the protocol take the values a call computed
StoreTables(proto, r) ==
    /\ IF proto = "tcp"
       THEN /\ tcpMapping' = r.mapping
            /\ tcpProxies' = r.proxies
            /\ UNCHANGED <<udpMapping, udpProxies>>
       ELSE /\ udpMapping' = r.mapping
            /\ udpProxies' = r.proxies
            /\ UNCHANGED <<tcpMapping, tcpProxies>>
    /\ natRules' = r.nat
    /\ fwdRules' = r.fwd

\* PortMapper.Map(ip, port, backendAddr): the protocol is that of the backend
Map(proto, port, backend) ==
    /\ iptables # "nil" => /\ natRules[<<proto, port, backend>>] < MaxRules
                           /\ fwdRules[<<proto, backend>>] < MaxRules
    /\ \E ans \in Answers \X Answers, proxyOk \in BOOLEAN, uans \in Answers \X Answers :
        LET r == map(proto, port, backend, ans, proxyOk, uans, iptables # "nil",
                     mappingOf(proto), proxiesOf(proto), natRules, fwdRules)
        IN  /\ StoreTables(proto, r)
            /\ mapLast' = [op |-> "Map", proto |-> proto, port |-> port,
                           err |-> r.err,
                           wasMapped |-> (IF proto = "tcp" THEN tcpMapping[port]
                                          ELSE udpMapping[port]) # NoBackend,
                           filterCalls |-> r.filterCalls,
                           proxyCalls |-> r.proxyCalls, failedAt |-> r.at]
    /\ UNCHANGED iptables
    /\ UNCHANGED <<chanVars, modVars, portVars, mgrVars>>

\* PortMapper.Unmap(ip, port, proto)
Unmap(proto, port) ==
    /\ \E ans \in Answers \X Answers :
        LET r == unmap(proto, port, ans, iptables # "nil", mappingOf(proto),
                       proxiesOf(proto), natRules, fwdRules)
        IN  /\ StoreTables(proto, r)
            /\ mapLast' = [op |-> "Unmap", proto |-> proto, port |-> port,
                           err |-> r.err,
                           wasMapped |-> (IF proto = "tcp" THEN tcpMapping[port]
                                          ELSE udpMapping[port]) # NoBackend,
                           filterCalls |-> r.filterCalls,
                           proxyCalls |-> r.proxyCalls, failedAt |-> r.at]
    /\ UNCHANGED iptables
    /\ UNCHANGED <<chanVars, modVars, portVars, mgrVars>>

\* a mapper with the filter enabled or not; the allocators are not used
InitMap ==
    /\ \E chain \in {"chain", "nil"} : InitPortMapper(chain)
    /\ InitPortAllocator
    /\ InitManager
    /\ InitAlloc(TestNet)
    /\ InitCallers
    /\ InitNoModule

\* calls that follow one another: every state is quiescent
NextMap ==
    \/ \E proto \in Protos, port \in MapPorts, backend \in Backends :
            Map(proto, port, backend)
    \/ \E proto \in Protos, port \in MapPorts : Unmap(proto, port)

SpecMap == InitMap /\ [][NextMap]_vars

-----------------------------------------------------------------------------
(* PortMapper, statement by statement: goroutines that call Map and Unmap   *)
(* at the same time. The struct has no lock, so every statement of one call *)
(* can run between two statements of another.                               *)

\* the statements of Map and Unmap between the first and the last access of
\* the call to the mapping and proxy tables
InTables == {"proxy", "store", "close", "rule", "remove"}

\* the tables of the protocol after a statement of the call
SetMapping(proto, m) ==
    IF proto = "tcp"
    THEN tcpMapping' = m /\ UNCHANGED udpMapping
    ELSE udpMapping' = m /\ UNCHANGED tcpMapping

SetProxies(proto, x) ==
    IF proto = "tcp"
    THEN tcpProxies' = x /\ UNCHANGED udpProxies
    ELSE udpProxies' = x /\ UNCHANGED tcpProxies

MapFrame ==
    /\ UNCHANGED <<iptables, mapLast, chanVars, modVars, portVars>>
    /\ UNCHANGED <<disabled, network6, inUse6, pos6, udpInUse, udpFountain, ifaces,
                   mgrClosed, mgrPanic, mgrLast, refused, fnCall, host, boot>>

\* a goroutine enters Map
MapBegin(c, proto, port, backend) ==
    /\ mapCall[c].pc = "idle"
    /\ mapCall' = [mapCall EXCEPT ![c] = [pc |-> "forward", proto |-> proto,
                     port |-> port, backend |-> backend, undo |-> FALSE]]
    /\ UNCHANGED <<tcpMapping, tcpProxies, udpMapping, udpProxies, natRules, fwdRules>>
    /\ MapFrame

\* Map: if mapper.iptables != nil { Forward(iptables.Add, ..) }
MapForward(c) ==
    LET m == mapCall[c] IN
    /\ m.pc = "forward"
    /\ iptables # "nil" => /\ natRules[<<m.proto, m.port, m.backend>>] < MaxRules
                           /\ fwdRules[<<m.proto, m.backend>>] < MaxRules
    /\ \E ans \in Answers \X Answers :
        LET f == forwardIf(iptables # "nil", "Add", m.proto, m.port, m.backend,
                           ans, natRules, fwdRules)
        IN  /\ natRules' = f.nat
            /\ fwdRules' = f.fwd
            /\ mapCall' = [mapCall EXCEPT ![c] =
                              IF f.err THEN NoMapCall ELSE [m EXCEPT !.pc = "record"]]
    /\ UNCHANGED <<tcpMapping, tcpProxies, udpMapping, udpProxies>>
    /\ MapFrame

\* Map: mapper.tcpMapping[port] = backendAddr
MapRecord(c) ==
    LET m == mapCall[c] IN
    /\ m.pc = "record"
    /\ SetMapping(m.proto, [mappingOf(m.proto) EXCEPT ![m.port] = m.backend])
    /\ mapCall' = [mapCall EXCEPT ![c].pc = "proxy"]
    /\ UNCHANGED <<tcpProxies, udpProxies, natRules, fwdRules>>
    /\ MapFrame

\* Map: proxy.NewProxy, and the call of Unmap when it fails
MapProxy(c) ==
    LET m == mapCall[c] IN
    /\ m.pc = "proxy"
    /\ \E proxyOk \in BOOLEAN :
        mapCall' = [mapCall EXCEPT ![c] =
                       IF proxyOk THEN [m EXCEPT !.pc = "store"]
                       ELSE [m EXCEPT !.pc = "lookup", !.undo = TRUE]]
    /\ UNCHANGED <<tcpMapping, tcpProxies, udpMapping, udpProxies, natRules, fwdRules>>
    /\ MapFrame

\* Map: mapper.tcpProxies[port] = proxy, and the return
MapStore(c) ==
    LET m == mapCall[c] IN
    /\ m.pc = "store"
    /\ SetProxies(m.proto, proxiesOf(m.proto) \cup {m.port})
    /\ mapCall' = [mapCall EXCEPT ![c] = NoMapCall]
    /\ UNCHANGED <<tcpMapping, udpMapping, natRules, fwdRules>>
    /\ MapFrame

\* a goroutine enters Unmap
UnmapBegin(c, proto, port) ==
    /\ mapCall[c].pc = "idle"
    /\ mapCall' = [mapCall EXCEPT ![c] = [pc |-> "lookup", proto |-> proto,
                     port |-> port, backend |-> NoBackend, undo |-> FALSE]]
    /\ UNCHANGED <<tcpMapping, tcpProxies, udpMapping, udpProxies, natRules, fwdRules>>
    /\ MapFrame

\* Unmap: backendAddr, ok := mapper.tcpMapping[port], and the return if !ok
UnmapLookup(c) ==
    LET m == mapCall[c]
        found == mappingOf(m.proto)[m.port]
    IN
    /\ m.pc = "lookup"
    /\ mapCall' = [mapCall EXCEPT ![c] =
                      IF found = NoBackend THEN NoMapCall
                      ELSE [m EXCEPT !.pc = "close", !.backend = found]]
    /\ UNCHANGED <<tcpMapping, tcpProxies, udpMapping, udpProxies, natRules, fwdRules>>
    /\ MapFrame

\* Unmap: proxy.Close() and delete(mapper.tcpProxies, port) if it exists
UnmapClose(c) ==
    LET m == mapCall[c] IN
    /\ m.pc = "close"
    /\ SetProxies(m.proto, proxiesOf(m.proto) \ {m.port})
    /\ mapCall' = [mapCall EXCEPT ![c].pc = "rule"]
    /\ UNCHANGED <<tcpMapping, udpMapping, natRules, fwdRules>>
    /\ MapFrame

\* Unmap: if mapper.iptables != nil { Forward(iptables.Delete, ..) }
UnmapRule(c) ==
    LET m == mapCall[c] IN
    /\ m.pc = "rule"
    /\ \E ans \in Answers \X Answers :
        LET f == forwardIf(iptables # "nil", "Delete", m.proto, m.port, m.backend,
                           ans, natRules, fwdRules)
        IN  /\ natRules' = f.nat
            /\ fwdRules' = f.fwd
            /\ mapCall' = [mapCall EXCEPT ![c] =
                              IF f.err THEN NoMapCall ELSE [m EXCEPT !.pc = "remove"]]
    /\ UNCHANGED <<tcpMapping, tcpProxies, udpMapping, udpProxies>>
    /\ MapFrame

\* Unmap: delete(mapper.tcpMapping, port), and the return
UnmapRemove(c) ==
    LET m == mapCall[c] IN
    /\ m.pc = "remove"
    /\ SetMapping(m.proto, [mappingOf(m.proto) EXCEPT ![m.port] = NoBackend])
    /\ mapCall' = [mapCall EXCEPT ![c] = NoMapCall]
    /\ UNCHANGED <<tcpProxies, udpProxies, natRules, fwdRules>>
    /\ MapFrame

\* every call of Map names the first backend
NextMapSteps ==
    \/ \E c \in Callers, proto \in Protos, port \in MapPorts : MapBegin(c, proto, port, 1)
    \/ \E c \in Callers, proto \in Protos, port \in MapPorts : UnmapBegin(c, proto, port)
    \/ \E c \in Callers : MapForward(c)
    \/ \E c \in Callers : MapRecord(c)
    \/ \E c \in Callers : MapProxy(c)
    \/ \E c \in Callers : MapStore(c)
    \/ \E c \in Callers : UnmapLookup(c)
    \/ \E c \in Callers : UnmapClose(c)
    \/ \E c \in Callers : UnmapRule(c)
    \/ \E c \in Callers : UnmapRemove(c)

SpecMapSteps == InitMap /\ [][NextMapSteps]_vars

-----------------------------------------------------------------------------
(* NetworkManager and NetworkInterface: the four allocators and the mapper
   behind Allocate, AllocatePort, Release and Close.  Every call is one step;
   the bridge has iptables enabled and every binding names one container
   port, so a backend is the container's address *)

MaxMgrRules == 2

\* calls in one behaviour in which a driver refuses
MaxRefused == 1

\* the bridge networks a manager is built for: (IPv4, IPv6)
MgrNetworks == {<<TestNet, TestNet6>>, <<GwNet, TestNet6>>, <<MidNet, MidNet6>>}

\* TCPAddr{IP: iface.IPNet.IP, Port: containerPort}
MgrBackends == {ipToInt(a) : a \in UNION {AllocableOf[n[1]] : n \in MgrNetworks}}

\* binding.HostPort of a request: "" or "0", or the test's port
HostPorts == {0, TestPort}

\* IPAllocator.Acquire(): the address run() offers and what run() records
ipAcquire(n, p, used) ==
    LET r == search(n, p, used)
    IN  [ip |-> r.ip, err |-> r.err, pos |-> r.pos, inUse |-> used \cup {r.ip}]

\* a Release that run() never sees
ipReleaseLost(n, p, used, ip) == [pos |-> p, inUse |-> used]

\* IPAllocator.Release(ip): run() is waiting in its select with a search done
ipRelease(n, p, used, ip) ==
    LET r == search(n, p, used)
    IN  [pos |-> releasedPos(n, r.pos, r.err, ip),
         inUse |-> used \ {releasedKey(n, ip)}]

\* PortAllocator.Acquire(0): the ports of the fountain until one is free
RECURSIVE acquireAny(_, _, _)
acquireAny(port, used, n) ==
    IF port \notin used \/ n = 0
    THEN [ret |-> port, err |-> FALSE, inUse |-> used \cup {port},
          fountain |-> nextPort(port)]
    ELSE acquireAny(nextPort(port), used, n - 1)

\* PortAllocator.Acquire(port) of one of the manager's allocators
portAcquire(hostPort, closed, fountain, used) ==
    IF hostPort # 0
    THEN LET a == acquire(hostPort, used)
         IN  [ret |-> a.ret, err |-> a.err, inUse |-> a.inUse, fountain |-> fountain]
    ELSE IF closed
    THEN [ret |-> 0 - 1, err |-> TRUE, inUse |-> used, fountain |-> fountain]
    ELSE acquireAny(fountain, used, RangeLen)

\* what Allocate leaves behind when it returns at `at', x and y being the
\* last answers of the two allocators and first the first IPv4 address
allocated(err, at, x, y, first, dup) ==
    [err |-> err, at |-> at, ip |-> x.ip, ip6 |-> y.ip,
     pos |-> x.pos, inUse |-> x.inUse, pos6 |-> y.pos, inUse6 |-> y.inUse,
     discarded |-> IF at \in {"retry", "retry6", "none"} /\ dup
                   THEN first ELSE NoIP]

\* the first+1 check of Allocate on the address ip
isDup(n4, ip) == ipToInt(RangeOf[n4][1]) + 1 = ipToInt(ip)

\* the check of Allocate on the IPv6 address ip6
isDup6(n6, ip6) == ip6ToInt(RangeOf[n6][1]) = ip6ToInt(ip6)

\* Allocate() from the duplicate checks on: a and b are the answers of the
\* first Acquires, a2 and b2 those of the second ones
allocateChecked(a, b, dup, dup6, a2, b2, p6, used6) ==
    IF a.err
    THEN allocated(TRUE, "acquire", a, [ip |-> NoIP, pos |-> p6, inUse |-> used6],
                   a.ip, FALSE)
    ELSE IF b.err THEN allocated(TRUE, "acquire6", a, b, a.ip, dup)
    ELSE IF dup /\ a2.err
    THEN allocated(TRUE, "retry", a2, IF dup6 THEN b2 ELSE b, a.ip, dup)
    ELSE IF dup6 /\ b2.err
    THEN allocated(TRUE, "retry6", IF dup THEN a2 ELSE a, b2, a.ip, dup)
    ELSE allocated(FALSE, "none", IF dup THEN a2 ELSE a, IF dup6 THEN b2 ELSE b,
                   a.ip, dup)

\* ip, err = manager.ipAllocator.Acquire() after the answer x of the first one
acquireAgain(n, x) == ipAcquire(n, x.pos, x.inUse)

\* Allocate() after the first Acquires have answered a and b
allocateAcquired(n4, n6, a, b, p6, used6) ==
    allocateChecked(a, b, isDup(n4, a.ip), isDup6(n6, b.ip),
                    acquireAgain(n4, a), acquireAgain(n6, b), p6, used6)

\* Allocate(): the two Acquires, the duplicate checks and the second Acquires
allocate(n4, p4, used4, n6, p6, used6) ==
    allocateAcquired(n4, n6, ipAcquire(n4, p4, used4), ipAcquire(n6, p6, used6),
                     p6, used6)

\* a Close that closes the allocators of a disabled manager too
closesAllocatorsAlways(off) == TRUE

\* Close: if manager.disabled { return nil }, else the four allocators closed
closesAllocators(off) == ~off

\* AllocatePort: if iface.disabled
ifaceRejects(iface) == iface.disabled

\* an AllocatePort that keeps the host port of a failed Map
portAfterMapKept(err, port, used) == used

\* AllocatePort: the allocator's inUse after Map has answered
portAfterMap(err, port, used) == IF err THEN release(port, used) ELSE used

\* a Release that walks extPorts from its end
natOrderReversed(nats) == [k \in 1..Len(nats) |-> nats[Len(nats) + 1 - k]]

\* Release: for _, nat := range iface.extPorts
natOrder(nats) == nats

\* a Release that keeps the host port of a failed Unmap
portAfterUnmapKept(err, port, used) == IF err THEN used ELSE release(port, used)

\* Release: the allocator's inUse after Unmap has answered
portAfterUnmap(err, port, used) == release(port, used)

portsOf(proto) == IF proto = "tcp" THEN inUsePorts ELSE udpInUse

fountainOf(proto) == IF proto = "tcp" THEN fountainPort ELSE udpFountain

\* the loop of Release over the recorded port mappings
RECURSIVE releaseLoop(_, _, _, _)
releaseLoop(nats, k, answers, st) ==
    IF k > Len(nats) THEN st
    ELSE LET nat == nats[k]
             u == unmap(nat.proto, nat.port, answers[k], iptables # "nil",
                        st.mapping[nat.proto], st.proxies[nat.proto],
                        st.nat, st.fwd)
         IN  releaseLoop(nats, k + 1, answers,
                 [mapping |-> [st.mapping EXCEPT ![nat.proto] = u.mapping],
                  proxies |-> [st.proxies EXCEPT ![nat.proto] = u.proxies],
                  nat |-> u.nat, fwd |-> u.fwd,
                  used |-> [st.used EXCEPT ![nat.proto] =
                               portAfterUnmap(u.err, nat.port, @)],
                  log |-> st.log \o << <<"Unmap", nat.proto, nat.port, u.err>>,
                                      <<"Release", nat.proto, nat.port, FALSE>> >>])

\* the port mappings the interfaces of a set have recorded
RECURSIVE NatCount(_)
NatCount(S) ==
    IF S = {} THEN 0
    ELSE LET i == CHOOSE j \in S : TRUE
         IN  Len(ifaces[i].extPorts) + NatCount(S \ {i})

mgrRest == <<disabled, network6, inUse6, pos6, udpInUse, udpFountain, ifaces,
             mgrClosed, mgrPanic, mgrLast, refused>>

\* the answers of iptables and of the proxy factory to one call: all of them
\* good, or some refusal while the behaviour has had fewer than MaxRefused
AllGood == <<"ok", "ok">>

Refusing(isRefusal) ==
    /\ isRefusal => refused < MaxRefused
    /\ refused' = IF isRefusal THEN refused + 1 ELSE refused

\* the variables of the standalone allocators and of the mapper's callers
\* that no call on the manager touches
MgrFrame ==
    /\ UNCHANGED <<network, offer, runPc, callPc, callArg, held, last, fresh,
                   nAcq, phase, relFirst, prevAcq>>
    /\ UNCHANGED modVars
    /\ UNCHANGED <<fountainPc, quitClosed, fountainClosed, portPc, portCand,
                   portFrom, atClose, nClose, portLast, acqSince, relPort,
                   sinceRel>>
    /\ UNCHANGED <<iptables, mapLast, mapCall, disabled, network6, fnCall,
                   host, boot>>

MgrIdle(op, i, at, err) ==
    /\ mgrLast' = [NoMgrOp EXCEPT !.op = op, !.i = i, !.at = at, !.err = err,
                                  !.nats = IF i \in Ifaces THEN ifaces[i].extPorts
                                           ELSE << >>]
    /\ UNCHANGED <<inUse, pos, inUse6, pos6, inUsePorts, fountainPort, udpInUse,
                   udpFountain, tcpMapping, tcpProxies, udpMapping, udpProxies,
                   natRules, fwdRules, refused>>

\* func (manager *NetworkManager) Allocate()
Allocate(i) ==
    /\ ~mgrPanic
    /\ ifaces[i].state = "none"
    /\ IF disabled
       THEN /\ ifaces' = [ifaces EXCEPT ![i] = [NoIface EXCEPT !.state = "live",
                                                              !.disabled = TRUE]]
            /\ MgrIdle("Allocate", i, "disabled", FALSE)
            /\ UNCHANGED <<mgrClosed, mgrPanic>>
       ELSE IF mgrClosed
       THEN /\ mgrPanic' = TRUE
            /\ MgrIdle("Allocate", i, "panic", FALSE)
            /\ UNCHANGED <<ifaces, mgrClosed>>
       ELSE LET r == allocate(network, pos, inUse, network6, pos6, inUse6)
            IN  /\ inUse' = r.inUse
                /\ pos' = r.pos
                /\ inUse6' = r.inUse6
                /\ pos6' = r.pos6
                /\ ifaces' = IF r.err THEN ifaces
                             ELSE [ifaces EXCEPT ![i] =
                                      [NoIface EXCEPT !.state = "live",
                                                      !.ip = r.ip, !.ip6 = r.ip6]]
                /\ mgrLast' = [NoMgrOp EXCEPT !.op = "Allocate", !.i = i,
                                              !.err = r.err, !.at = r.at,
                                              !.ip = r.ip, !.ip6 = r.ip6,
                                              !.discarded = r.discarded]
                /\ UNCHANGED <<inUsePorts, fountainPort, udpInUse, udpFountain,
                               tcpMapping, tcpProxies, udpMapping, udpProxies,
                               natRules, fwdRules, mgrClosed, mgrPanic,
                               refused>>
    /\ MgrFrame

\* func (iface *NetworkInterface) AllocatePort(port Port, binding PortBinding)
AllocatePort(i, proto, hostPort) ==
    /\ ~mgrPanic
    /\ ifaces[i].state = "live"
    /\ IF ifaceRejects(ifaces[i])
       THEN /\ MgrIdle("AllocatePort", i, "disabled", TRUE)
            /\ UNCHANGED ifaces
       ELSE /\ NatCount(Ifaces) < MaxNats
            /\ (hostPort = 0 /\ ~mgrClosed) => PortRange \ portsOf(proto) # {}
            /\ LET a == portAcquire(hostPort, mgrClosed, fountainOf(proto),
                                    portsOf(proto))
                   backend == ipToInt(ifaces[i].ip)
               IN  IF a.err
                   THEN /\ MgrIdle("AllocatePort", i, "acquire", TRUE)
                        /\ UNCHANGED ifaces
                   ELSE /\ natRules[<<proto, a.ret, backend>>] < MaxMgrRules
                        /\ fwdRules[<<proto, backend>>] < MaxMgrRules
                        /\ \E ans \in Answers \X Answers, proxyOk \in BOOLEAN,
                              uans \in Answers \X Answers :
                            LET m == map(proto, a.ret, backend, ans, proxyOk, uans,
                                         iptables # "nil", mappingOf(proto),
                                         proxiesOf(proto), natRules, fwdRules)
                                used == portAfterMap(m.err, a.ret, a.inUse)
                            IN  /\ proxyOk => uans = AllGood
                                /\ Refusing(ans # AllGood \/ ~proxyOk
                                                \/ uans # AllGood)
                                /\ StoreTables(proto, m)
                                /\ IF proto = "tcp"
                                   THEN /\ inUsePorts' = used
                                        /\ fountainPort' = a.fountain
                                        /\ UNCHANGED <<udpInUse, udpFountain>>
                                   ELSE /\ udpInUse' = used
                                        /\ udpFountain' = a.fountain
                                        /\ UNCHANGED <<inUsePorts, fountainPort>>
                                /\ ifaces' = IF m.err THEN ifaces
                                             ELSE [ifaces EXCEPT ![i].extPorts =
                                                      Append(@, [proto |-> proto,
                                                                 port |-> a.ret])]
                                /\ mgrLast' = [NoMgrOp EXCEPT
                                                  !.op = "AllocatePort", !.i = i,
                                                  !.err = m.err,
                                                  !.at = IF m.err THEN "map"
                                                         ELSE "none",
                                                  !.proto = proto, !.port = a.ret,
                                                  !.hostPort = hostPort,
                                                  !.nats = ifaces[i].extPorts]
                        /\ UNCHANGED <<inUse, pos, inUse6, pos6>>
    /\ UNCHANGED <<mgrClosed, mgrPanic>>
    /\ MgrFrame

\* the body of Release, which leaves the interface in the state `to`
releaseIface(i, to) ==
    /\ ~mgrPanic
    /\ IF ifaces[i].disabled
       THEN /\ MgrIdle("Release", i, "disabled", FALSE)
            /\ ifaces' = [ifaces EXCEPT ![i].state = to]
            /\ UNCHANGED <<mgrClosed, mgrPanic>>
       ELSE \E answers \in [1..Len(ifaces[i].extPorts) -> Answers \X Answers] :
            LET st == releaseLoop(natOrder(ifaces[i].extPorts), 1, answers,
                          [mapping |-> [pr \in Protos |-> mappingOf(pr)],
                           proxies |-> [pr \in Protos |-> proxiesOf(pr)],
                           nat |-> natRules, fwd |-> fwdRules,
                           used |-> [pr \in Protos |-> portsOf(pr)],
                           log |-> << >>])
                r4 == ipRelease(network, pos, inUse, ifaces[i].ip)
                r6 == ipRelease(network6, pos6, inUse6, ifaces[i].ip6)
            IN  /\ Refusing(\E k \in DOMAIN answers : answers[k] # AllGood)
                /\ tcpMapping' = st.mapping["tcp"]
                /\ udpMapping' = st.mapping["udp"]
                /\ tcpProxies' = st.proxies["tcp"]
                /\ udpProxies' = st.proxies["udp"]
                /\ natRules' = st.nat
                /\ fwdRules' = st.fwd
                /\ inUsePorts' = st.used["tcp"]
                /\ udpInUse' = st.used["udp"]
                /\ UNCHANGED <<fountainPort, udpFountain, mgrClosed>>
                /\ IF mgrClosed
                   THEN /\ mgrPanic' = TRUE
                        /\ UNCHANGED <<inUse, pos, inUse6, pos6, ifaces>>
                   ELSE /\ r4.pos >= 0 - MaxBelow
                        /\ r6.pos >= 0 - MaxBelow
                        /\ inUse' = r4.inUse
                        /\ pos' = r4.pos
                        /\ inUse6' = r6.inUse
                        /\ pos6' = r6.pos
                        /\ ifaces' = [ifaces EXCEPT ![i].state = to]
                        /\ UNCHANGED mgrPanic
                /\ mgrLast' = [NoMgrOp EXCEPT
                                  !.op = "Release", !.i = i,
                                  !.at = IF mgrClosed THEN "panic" ELSE "none",
                                  !.nats = ifaces[i].extPorts, !.log = st.log,
                                  !.ip = ifaces[i].ip, !.ip6 = ifaces[i].ip6]
    /\ MgrFrame

\* func (iface *NetworkInterface) Release(), the first call on the interface
IfaceRelease(i) ==
    /\ ifaces[i].state = "live"
    /\ releaseIface(i, "released")

\* Release called a second time on an interface: the interface has no field
\* that tells a call whether it was released
IfaceReleaseAgain(i) ==
    /\ ifaces[i].state = "released"
    /\ releaseIface(i, "released twice")

\* func (manager *NetworkManager) Close(), called once
MgrClose ==
    /\ ~mgrPanic
    /\ ~mgrClosed
    /\ mgrLast.op # "Close"
    /\ MgrIdle("Close", 0, IF disabled THEN "disabled" ELSE "none", FALSE)
    /\ mgrClosed' = closesAllocators(disabled)
    /\ UNCHANGED <<ifaces, mgrPanic>>
    /\ MgrFrame

\* newNetworkManager(config) on one of the bridges, or on the bridge "none"
InitMgrOf(networks, offs) ==
    /\ \E nets \in networks, off \in offs :
        /\ InitAlloc(nets[1])
        /\ InitManagerOn(nets[2], off)
    /\ InitCallers
    /\ InitNoModule
    /\ InitPortAllocator
    /\ tcpMapping = [port \in NamedPorts |-> NoBackend]
    /\ tcpProxies = {}
    /\ udpMapping = [port \in NamedPorts |-> NoBackend]
    /\ udpProxies = {}
    /\ iptables = "chain"
    /\ natRules = [k \in Protos \X NamedPorts \X MgrBackends |-> 0]
    /\ fwdRules = [k \in Protos \X MgrBackends |-> 0]
    /\ mapLast = NoMapOp

InitMgr == InitMgrOf(MgrNetworks, BOOLEAN)

NextMgr ==
    \/ \E i \in Ifaces : Allocate(i)
    \/ \E i \in Ifaces, proto \in Protos, hostPort \in HostPorts :
          AllocatePort(i, proto, hostPort)
    \/ \E i \in Ifaces : IfaceRelease(i)
    \/ MgrClose

SpecMgr == InitMgr /\ [][NextMgr]_vars

\* the manager of the tests, not closed, whose interfaces may be released
\* twice
InitAgain == InitMgrOf({<<TestNet, TestNet6>>}, {FALSE})

NextAgain ==
    \/ \E i \in Ifaces : Allocate(i)
    \/ \E i \in Ifaces, proto \in Protos, hostPort \in HostPorts :
          AllocatePort(i, proto, hostPort)
    \/ \E i \in Ifaces : IfaceRelease(i)
    \/ \E i \in Ifaces : IfaceReleaseAgain(i)

SpecAgain == InitAgain /\ [][NextAgain]_vars

-----------------------------------------------------------------------------
(* networkOverlaps on networks as net.ParseCIDR and the interface addresses
   give them *)

\* net.CIDRMask(ones, 8 * len)
cidrMask(ones, len) ==
    IPBytes([i \in 1..len |->
                IF ones >= 8 * i THEN 255
                ELSE IF ones <= 8 * (i - 1) THEN 0
                ELSE 256 - 2 ^ (8 * i - ones)], len)

\* net.IP.To4(): the 4-byte form of an IPv4 address, nil for any other
To4(ip) ==
    IF Len(ip) = 4 THEN ip
    ELSE IF /\ Len(ip) = 16
            /\ \A i \in 1..10 : ip[i] = 0
            /\ ip[11] = 255
            /\ ip[12] = 255
    THEN SubSeq(ip, 13, 16)
    ELSE NoIP

\* net.IPNet.Contains(ip)
Contains(n, ip) ==
    LET nn == IF To4(n.IP) # NoIP THEN To4(n.IP) ELSE n.IP
        x  == IF To4(ip) # NoIP THEN To4(ip) ELSE ip
    IN  /\ Len(x) = Len(nn)
        /\ Len(n.Mask) = Len(nn)
        /\ \A i \in 1..Len(nn) :
              And8(nn[i], n.Mask[i], 8) = And8(x[i], n.Mask[i], 8)

\* a networkOverlaps that asks only whether netY contains netX's first address
networkOverlapsOneWay(netX, netY) == Contains(netY, networkRange(netX)[1])

\* networkOverlaps(netX, netY)
networkOverlaps(netX, netY) ==
    IF Contains(netY, networkRange(netX)[1]) THEN TRUE
    ELSE IF Contains(netX, networkRange(netY)[1]) THEN TRUE
    ELSE FALSE

\* net.ParseCIDR: the network of an address and a prefix length, its IP masked
parseCIDR(ip, ones) ==
    LET mask == cidrMask(ones, Len(ip))
    IN  [IP |-> networkRange([IP |-> ip, Mask |-> mask])[1], Mask |-> mask]

\* the networks of TestNetworkOverlaps and their neighbours: 172.16.a.b/p
OverlapNets4 ==
    {parseCIDR(<<172, 16, a, b>>, p) :
        a \in 0..3, b \in {0, 1, 64, 128, 192}, p \in 22..26}

\* 2001:db8:0:g:hh00::1/p
OverlapNets6 ==
    {parseCIDR(<<32, 1, 13, 184, 0, 0, 0, g, h, 0, 0, 0, 0, 0, 0, 1>>, p) :
        g \in 0..2, h \in {0, 64, 128}, p \in 63..66}

OverlapNets == OverlapNets4 \cup OverlapNets6

\* the arguments of a call that has not returned yet
FnArgs(fn, netX, netY) ==
    [fn |-> fn, netX |-> netX, netY |-> netY, done |-> FALSE, result |-> FALSE]

\* the call networkOverlaps(netX, netY) returns
Overlaps ==
    /\ fnCall.fn = "networkOverlaps"
    /\ ~fnCall.done
    /\ fnCall' = [fnCall EXCEPT !.done = TRUE,
                                !.result = networkOverlaps(fnCall.netX, fnCall.netY)]
    /\ UNCHANGED <<chanVars, modVars, portVars, mapVars>>
    /\ UNCHANGED <<mapCall, mgrRest, host, boot>>

\* a call of networkOverlaps with two of the networks, nothing else running
InitOverlaps ==
    /\ InitAlloc(TestNet)
    /\ InitCallers
    /\ InitNoModule
    /\ InitPortAllocator
    /\ InitPortMapper("nil")
    /\ mapCall = [c \in Callers |-> NoMapCall]
    /\ disabled = FALSE
    /\ network6 = TestNet6
    /\ inUse6 = {}
    /\ pos6 = 1
    /\ udpInUse = {}
    /\ udpFountain = portRangeStart
    /\ ifaces = [i \in Ifaces |-> NoIface]
    /\ mgrClosed = FALSE
    /\ mgrPanic = FALSE
    /\ mgrLast = NoMgrOp
    /\ refused = 0
    /\ host = NoHost
    /\ boot = NoBoot
    /\ \E netX, netY \in OverlapNets :
          fnCall = FnArgs("networkOverlaps", netX, netY)

NextOverlaps == Overlaps

SpecOverlaps == InitOverlaps /\ [][NextOverlaps]_vars

-----------------------------------------------------------------------------
(* networkSize and the address conversions, each called once on an argument
   drawn from a set *)

\* the masks net.CIDRMask gives for the IPv4 prefix lengths
PrefixLengths == 0..32

\* bytes of the addresses converted: both ends, both sides of the sign bit
ConvBytes == {0, 1, 127, 128, 255}

\* IPv4 addresses in 4-byte form and, as net.ParseIP gives them, in 16-byte form
ConvAddrs4 ==
    {<<a, b, c, d>> : a \in ConvBytes, b \in {0, 255}, c \in {0, 128}, d \in ConvBytes}
    \cup {<<0, 0, 0, 0, 0, 0, 0, 0, 0, 0, 255, 255, a, 0, 0, d>> :
              a \in ConvBytes, d \in ConvBytes}

\* IPv6 addresses, among them ::1 of TestConversion6
ConvAddrs6 ==
    {<<a, 1, 13, 184, 0, 0, 0, b, c, 0, 0, 0, 0, 0, 0, d>> :
        a \in {0, 32, 255}, b \in {0, 255}, c \in ConvBytes, d \in ConvBytes}
    \cup {<<0, 0, 0, 0, 0, 0, 0, 0, 0, 0, 0, 0, 0, 0, 0, 1>>}

\* the manager, the allocators and the mapper with no call made
InitIdle ==
    /\ InitAlloc(TestNet)
    /\ InitCallers
    /\ InitNoModule
    /\ InitPortAllocator
    /\ InitPortMapper("nil")
    /\ mapCall = [c \in Callers |-> NoMapCall]
    /\ disabled = FALSE
    /\ network6 = TestNet6
    /\ inUse6 = {}
    /\ pos6 = 1
    /\ udpInUse = {}
    /\ udpFountain = portRangeStart
    /\ ifaces = [i \in Ifaces |-> NoIface]
    /\ mgrClosed = FALSE
    /\ mgrPanic = FALSE
    /\ mgrLast = NoMgrOp
    /\ refused = 0

FnFrame ==
    /\ UNCHANGED <<chanVars, modVars, portVars, mapVars>>
    /\ UNCHANGED <<mapCall, mgrRest, host, boot>>

\* size := networkSize(mask), the mask of a prefix length
NetworkSizeCall ==
    /\ fnCall.fn = "networkSize"
    /\ ~fnCall.done
    /\ fnCall' = [fnCall EXCEPT !.done = TRUE,
                                !.result = networkSize(cidrMask(fnCall.ones, 4))]
    /\ FnFrame

\* intToIP(ipToInt(ip)); ipToInt reads ip.To4()
Conversion ==
    /\ fnCall.fn = "ipToInt"
    /\ ~fnCall.done
    /\ fnCall' = [fnCall EXCEPT !.done = TRUE,
                                !.int = ipToInt(To4(fnCall.ip)),
                                !.result = intToIP(ipToInt(To4(fnCall.ip)))]
    /\ FnFrame

\* intToIP6(ip6ToInt(ip))
Conversion6 ==
    /\ fnCall.fn = "ip6ToInt"
    /\ ~fnCall.done
    /\ fnCall' = [fnCall EXCEPT !.done = TRUE,
                                !.int = ip6ToInt(fnCall.ip),
                                !.result = intToIP6(ip6ToInt(fnCall.ip)[1],
                                                    ip6ToInt(fnCall.ip)[2])]
    /\ FnFrame

InitFnCall ==
    /\ InitIdle
    /\ host = NoHost
    /\ boot = NoBoot
    /\ \/ \E ones \in PrefixLengths :
             fnCall = [fn |-> "networkSize", ones |-> ones, done |-> FALSE,
                       result |-> 0]
       \/ \E ip \in ConvAddrs4 :
             fnCall = [fn |-> "ipToInt", ip |-> ip, done |-> FALSE, int |-> 0,
                       result |-> NoIP]
       \/ \E ip \in ConvAddrs6 :
             fnCall = [fn |-> "ip6ToInt", ip |-> ip, done |-> FALSE, int |-> 0,
                       result |-> NoIP]

NextFnCall ==
    \/ NetworkSizeCall
    \/ Conversion
    \/ Conversion6

SpecFnCall == InitFnCall /\ [][NextFnCall]_vars

(***************************************************************************)
(* The bridge: CreateBridgeIface and the start of newNetworkManager        *)
(***************************************************************************)

\* the candidates of CreateBridgeIface, in the order of the list
addrs4 ==
    << <<<<172, 17, 42, 1>>, 16>>, <<<<10, 0, 42, 1>>, 16>>,
       <<<<10, 1, 42, 1>>, 16>>, <<<<10, 42, 42, 1>>, 16>>,
       <<<<172, 16, 42, 1>>, 24>>, <<<<172, 16, 43, 1>>, 24>>,
       <<<<172, 16, 44, 1>>, 24>>, <<<<10, 0, 42, 1>>, 24>>,
       <<<<10, 0, 43, 1>>, 24>>, <<<<192, 168, 42, 1>>, 24>>,
       <<<<192, 168, 43, 1>>, 24>>, <<<<192, 168, 44, 1>>, 24>> >>

\* utils.GenULA(): "fc" and 56 bits of a hash, /64; the k-th value drawn by a
\* call whose random source is seed
GenULA(seed, k) ==
    <<<<252, k, seed, 0, 0, 0, 0, 0, 0, 0, 0, 0, 0, 0, 0, 0>>, 64>>

Seeds == 0..1

addrs6(seed) ==
    <<GenULA(seed, 1), GenULA(seed, 2), GenULA(seed, 3), GenULA(seed, 4),
      GenULA(seed, 5), GenULA(seed, 6), GenULA(seed, 7), GenULA(seed, 8),
      GenULA(seed, 9), GenULA(seed, 10), GenULA(seed, 11), GenULA(seed, 12)>>

\* checkRouteOverlaps(networks, dockerNetwork): TRUE for an error
checkRouteOverlaps(networks, dockerNetwork) ==
    \E route \in networks : networkOverlaps(dockerNetwork, route)

\* a checkNameserverOverlaps that finds no nameserver
checkNameserverOverlapsNone(nameservers, dockerNetwork) == FALSE

\* checkNameserverOverlaps(nameservers, dockerNetwork): TRUE for an error;
\* the nameservers are the CIDRs of GetNameserversAsCIDR, which parse
checkNameserverOverlaps(nameservers, dockerNetwork) ==
    \E nsNetwork \in nameservers : networkOverlaps(dockerNetwork, nsNetwork)

\* the loops of CreateBridgeIface over a list of candidates, from the i-th
\* on: the index of the address they keep, 0 for the empty string
RECURSIVE pickAddr(_, _, _, _)
pickAddr(addrs, i, routes, nameservers) ==
    IF i > Len(addrs) THEN 0
    ELSE LET dockerNetwork == parseCIDR(addrs[i][1], addrs[i][2])
         IN  IF /\ ~checkRouteOverlaps(routes, dockerNetwork)
                /\ ~checkNameserverOverlaps(nameservers, dockerNetwork)
             THEN i
             ELSE pickAddr(addrs, i + 1, routes, nameservers)

\* the routes of the hosts: the private ranges, the unique local range and
\* one of its subnets
HostRoutes ==
    {parseCIDR(<<172, 16, 0, 0>>, 12), parseCIDR(<<10, 0, 0, 0>>, 8),
     parseCIDR(<<192, 168, 0, 0>>, 16),
     parseCIDR(<<252, 0, 0, 0, 0, 0, 0, 0, 0, 0, 0, 0, 0, 0, 0, 0>>, 7),
     parseCIDR(<<252, 1, 0, 0, 0, 0, 0, 0, 0, 0, 0, 0, 0, 0, 0, 0>>, 16)}

\* the nameservers of the hosts, as GetNameserversAsCIDR gives them: /32
HostNameservers ==
    {parseCIDR(<<172, 17, 0, 23>>, 32),
     parseCIDR(<<252, 1, 0, 0, 0, 0, 0, 0, 0, 0, 0, 0, 0, 0, 0, 1>>, 32)}

\* getIfaceAddr(name): TRUE for an error
getIfaceAddr(h) == ~h.exists \/ h.addr4 = 0

\* getIfaceAddr6(name): TRUE for an error; one IPv6 address is taken for the
\* link-local one
getIfaceAddr6(h) == ~h.exists \/ h.addrs6 < 2

\* the answers of the host to a call of CreateBridgeIface: whether the routes
\* can be read, the link added (netlink alone decides it, for a link that
\* exists too), the addresses added, the link brought up (a new link gets
\* its link-local address then), and how many of the three iptables calls
\* succeed
CreateAnswers ==
    [routes : BOOLEAN, linkAdd : BOOLEAN, addIp : BOOLEAN, addIp6 : BOOLEAN,
     linkUp : BOOLEAN, raws : 0..3, seed : Seeds]

AnswersOf(seed) == {a \in CreateAnswers : a.seed = seed}

\* CreateBridgeIface(config) on the host h with the answers a, its two loops
\* keeping ifaceAddr and iface6Addr if the routes can be read
CreateBridgeIface(h, enableIptables, a, ifaceAddr, iface6Addr) ==
    LET done == [NoCreate EXCEPT !.called = TRUE, !.routesRead = TRUE,
                                 !.ifaceAddr = ifaceAddr,
                                 !.iface6Addr = iface6Addr,
                                 !.seed = a.seed, !.routes = h.routes]
        added == [h EXCEPT
                    !.exists = TRUE,
                    !.addr4 = IF h.addr4 # 0 THEN h.addr4
                              ELSE IF a.addIp THEN ifaceAddr ELSE 0,
                    !.addrs6 = h.addrs6 + (IF a.addIp6 THEN 1 ELSE 0),
                    !.routes =
                        h.routes
                          \cup (IF a.addIp
                                THEN {parseCIDR(addrs4[ifaceAddr][1],
                                                addrs4[ifaceAddr][2])}
                                ELSE {})
                          \cup (IF a.addIp6
                                THEN {parseCIDR(GenULA(a.seed, iface6Addr)[1],
                                                GenULA(a.seed, iface6Addr)[2])}
                                ELSE {})]
        up == [added EXCEPT
                 !.addrs6 = added.addrs6 + (IF h.exists THEN 0 ELSE 1)]
    IN  IF ~a.routes
        THEN [host |-> h,
              did |-> [NoCreate EXCEPT !.called = TRUE, !.err = TRUE,
                                       !.seed = a.seed, !.routes = h.routes]]
        ELSE IF ifaceAddr = 0 \/ iface6Addr = 0
        THEN [host |-> h, did |-> [done EXCEPT !.err = TRUE]]
        ELSE IF ~a.linkAdd
        THEN [host |-> h, did |-> [done EXCEPT !.err = TRUE, !.linkAdds = 1]]
        ELSE IF ~a.linkUp
        THEN [host |-> added,
              did |-> [done EXCEPT !.err = TRUE, !.linkAdds = 1]]
        ELSE IF ~enableIptables
        THEN [host |-> up, did |-> [done EXCEPT !.linkAdds = 1]]
        ELSE [host |-> [up EXCEPT !.rules = h.rules + a.raws],
              did |-> [done EXCEPT !.err = a.raws < 3, !.linkAdds = 1,
                                   !.raws = IF a.raws < 3 THEN a.raws + 1
                                            ELSE 3]]

BridgeFrame ==
    /\ UNCHANGED <<chanVars, modVars, portVars, mapVars>>
    /\ UNCHANGED <<mapCall, mgrRest, fnCall>>

\* addr, err := getIfaceAddr(config.BridgeIface)
Lookup4 ==
    /\ boot.pc = "getIfaceAddr"
    /\ boot' = [boot EXCEPT !.pc = IF getIfaceAddr(host) THEN "create"
                                   ELSE "getIfaceAddr6"]
    /\ UNCHANGED host
    /\ BridgeFrame

\* the call of CreateBridgeIface at pc, then to ok or to the error return
Create(pc, ok) ==
    /\ boot.pc = pc
    /\ \E seed \in Seeds :
        \E ifaceAddr \in {pickAddr(addrs4, 1, host.routes, host.nameservers)},
           iface6Addr \in {pickAddr(addrs6(seed), 1, host.routes,
                                    host.nameservers)} :
        \E a \in AnswersOf(seed) :
          LET r == CreateBridgeIface(host, boot.enableIptables, a, ifaceAddr,
                                     iface6Addr)
          IN  /\ host' = r.host
              /\ boot' = [boot EXCEPT !.pc = IF r.did.err THEN "failed" ELSE ok,
                                      !.creates = boot.creates + 1,
                                      !.create = r.did]
    /\ BridgeFrame

\* if err != nil { CreateBridgeIface(config) } after getIfaceAddr
Create4 == Create("create", "getIfaceAddr again")

\* addr, err = getIfaceAddr(config.BridgeIface), after the creation
Lookup4Again ==
    /\ boot.pc = "getIfaceAddr again"
    /\ boot' = [boot EXCEPT !.pc = IF getIfaceAddr(host) THEN "failed"
                                   ELSE "getIfaceAddr6"]
    /\ UNCHANGED host
    /\ BridgeFrame

\* addr6, err := getIfaceAddr6(config.BridgeIface)
Lookup6 ==
    /\ boot.pc = "getIfaceAddr6"
    /\ boot' = [boot EXCEPT !.pc = IF getIfaceAddr6(host) THEN "create6"
                                   ELSE "configure"]
    /\ UNCHANGED host
    /\ BridgeFrame

\* if err != nil { CreateBridgeIface(config) } after getIfaceAddr6
Create6 == Create("create6", "getIfaceAddr6 again")

\* addr6, err = getIfaceAddr6(config.BridgeIface), after the creation
Lookup6Again ==
    /\ boot.pc = "getIfaceAddr6 again"
    /\ boot' = [boot EXCEPT !.pc = IF getIfaceAddr6(host) THEN "failed"
                                   ELSE "configure"]
    /\ UNCHANGED host
    /\ BridgeFrame

\* the rest of newNetworkManager: the rule of inter-container communication,
\* which iptables may refuse, and the allocators and the mapper
Configure ==
    /\ boot.pc = "configure"
    /\ \E ok \in BOOLEAN :
          /\ ~boot.enableIptables => ok
          /\ boot' = [boot EXCEPT !.pc = IF ok THEN "done" ELSE "failed"]
    /\ UNCHANGED host
    /\ BridgeFrame

\* the bridges newNetworkManager may find: none, one without addresses, one
\* with an IPv4 address and a link-local one, one with all its addresses
HostBridges ==
    {[exists |-> FALSE, addr4 |-> 0, addrs6 |-> 0],
     [exists |-> TRUE, addr4 |-> 0, addrs6 |-> 0],
     [exists |-> TRUE, addr4 |-> 1, addrs6 |-> 1],
     [exists |-> TRUE, addr4 |-> 1, addrs6 |-> 2]}

\* newNetworkManager is called on a host, nothing else running
InitBridge ==
    /\ InitIdle
    /\ fnCall = NoFnCall
    /\ \E routes \in SUBSET HostRoutes, nameservers \in SUBSET HostNameservers,
          b \in HostBridges :
          host = [NoHost EXCEPT !.routes = routes,
                                !.nameservers = nameservers,
                                !.exists = b.exists, !.addr4 = b.addr4,
                                !.addrs6 = b.addrs6]
    /\ \E enableIptables \in BOOLEAN :
          boot = [NoBoot EXCEPT !.pc = "getIfaceAddr",
                                !.enableIptables = enableIptables]

NextBridge ==
    \/ Lookup4
    \/ Create4
    \/ Lookup4Again
    \/ Lookup6
    \/ Create6
    \/ Lookup6Again
    \/ Configure

SpecBridge == InitBridge /\ [][NextBridge]_vars

-----------------------------------------------------------------------------
(* Properties of the channel-based IPAllocator *)

\* C1: once Acquire has returned an address without error, no other Acquire
\* returns it until it has been passed to Release: no address is held by two
\* callers at once, and no Acquire returns an address that is still held.
C1_NoAddressHeldTwice ==
    /\ \A c1, c2 \in Callers : c1 # c2 => held[c1] \cap held[c2] = {}
    /\ (last.op = "Acquire" /\ ~last.err) => ~last.wasHeld

\* C2: on an IPv4 network every address currently allocated is first + p with
\* 1 <= p <= size - 2, and is neither the gateway nor the broadcast address.
C2_AllocatedInsideRange ==
    IsV4(network.IP) =>
        LET first == networkRange(network)[1]
            lastIP == networkRange(network)[2]
            size  == networkSize(network.Mask)
        IN  \A a \in Holders :
                /\ \E p \in 1..(size - 2) : a = intToIP(ipToInt(first) + p)
                /\ a # network.IP
                /\ a # lastIP

\* C3: on a fresh IPv4 allocator whose gateway is first + 1, with no Release
\* so far, the k-th Acquire returns first + 1 + k for k = 1 .. size - 3 (the
\* last one is the address just below broadcast), and Acquire number size - 2
\* returns an error.
C3_FreshAcquiresAscend ==
    (IsV4(network.IP) /\ fresh /\ last.op = "Acquire"
        /\ ipToInt(network.IP) = ipToInt(networkRange(network)[1]) + 1) =>
        LET first == ipToInt(networkRange(network)[1])
            size  == networkSize(network.Mask)
        IN  /\ nAcq <= size - 3 => (~last.err /\ last.ip = intToIP(first + 1 + nAcq))
            /\ nAcq = size - 2 => last.err

\* C3 happens: on 127.0.0.1/29 the five addresses .2 .. .6 were handed out
\* and the sixth Acquire has returned its error
C3_SixthAcquireFailed ==
    /\ network = TestNet
    /\ fresh
    /\ last.op = "Acquire"
    /\ nAcq = 6
    /\ last.err
    /\ Holders = {<<127, 0, 0, 2>>, <<127, 0, 0, 3>>, <<127, 0, 0, 4>>,
                  <<127, 0, 0, 5>>, <<127, 0, 0, 6>>}

\* C4: on an exhausted allocator, after several Release calls the next
\* Acquire returns the address released first; each following Acquire returns
\* the next free address in ascending cyclic position order after the one
\* before; and with no free address left the Acquire fails.
C4_ReleasedFirstThenCyclic ==
    /\ (phase = "reacq" /\ prevAcq = NoIP) => last.ip = relFirst
    /\ (phase = "reacq" /\ prevAcq # NoIP /\ last.hadFree) =>
            last.ip = NextCyclicFree(network, prevAcq, FreeNow \cup {last.ip})
    /\ (last.op = "Acquire" /\ ~fresh /\ ~last.hadFree /\ AllocableOf[network] # {})
            => last.err

\* C4 happens: on 127.0.0.1/29, after exhaustion, Release(.5), Release(.4),
\* Release(.6), then Acquires that gave .5, .6 and now .4
C4_ThreeReleasedThreeAcquired ==
    /\ network = TestNet
    /\ phase = "reacq"
    /\ relFirst = <<127, 0, 0, 5>>
    /\ prevAcq = <<127, 0, 0, 6>>
    /\ last.ip = <<127, 0, 0, 4>>
    /\ FreeNow = {}

\* C5: on 2001:db8::1/125 the k-th Acquire of a fresh allocator returns
\* ::(1+k) for k = 1 .. 6 and the seventh fails; after releases on the
\* exhausted allocator the Acquires return the address released first and then
\* the free addresses in ascending cyclic order; and on every IPv6 network an
\* Acquire that succeeds returns a position 1 .. 2^(128-prefix) - 1 that is not
\* the gateway's.
C5_IPv6HandsOutAllButGateway ==
    ~IsV4(network.IP) =>
        /\ (network = TestNet6 /\ fresh /\ last.op = "Acquire") =>
                /\ nAcq <= 6 => (~last.err /\ last.ip = Doc6(1 + nAcq))
                /\ nAcq = 7 => last.err
        /\ (phase = "reacq" /\ prevAcq = NoIP) => last.ip = relFirst
        /\ (phase = "reacq" /\ prevAcq # NoIP /\ last.hadFree) =>
                last.ip = NextCyclicFree(network, prevAcq, FreeNow \cup {last.ip})
        /\ (last.op = "Acquire" /\ ~last.err) =>
                /\ \E p \in 1..U64Small(networkSize6(network.Mask)[2]) :
                       last.ip = intToIP6(ip6ToInt(networkRange(network)[1])[1],
                                          U64Add(ip6ToInt(networkRange(network)[1])[2], p))
                /\ last.ip # network.IP

\* C6: Acquire returns an error if and only if every allocable position is in
\* use; when an allocable position is free, Acquire returns a free address.
C6_ErrorIffExhausted ==
    last.op = "Acquire" =>
        /\ last.err <=> ~last.hadFree
        /\ last.hadFree => last.wasFree

-----------------------------------------------------------------------------
(* Properties of the module-level allocator *)

\* C7: RequestIP(network, nil) returns the oldest released and not yet
\* re-issued address whenever there is one, and otherwise either fails or
\* returns an address that was never handed out before.
C7_OldestReleasedFirst ==
    (mlast.op = "RequestIP" /\ ~mlast.explicit) =>
        IF mlast.hadPool
        THEN ~mlast.err /\ mlast.ip = mlast.poolHead
        ELSE mlast.err \/ ~mlast.wasUsed

\* C7 happens: on 127.0.0.1/29, .5 was released before .3 and the next
\* RequestIP(nil) has returned .5 while .3 is still waiting in the pool
C7_ReleasedFiveThenThree ==
    /\ address = TestNet
    /\ mlast.op = "RequestIP"
    /\ mlast.hadPool
    /\ mlast.ip = <<127, 0, 0, 5>>
    /\ relOrder = << <<127, 0, 0, 3>> >>

\* C8: for every sequence of acquire and release calls on the same IPv4
\* network, the channel-based and the module-level allocator return the same
\* address or both fail.
C8_SameResults ==
    (last.op = "Acquire" /\ mlast.op = "RequestIP") =>
        /\ last.err = mlast.err
        /\ ~last.err => last.ip = mlast.ip

\* C9: RequestIP with an explicit ip fails when ip is currently allocated and
\* otherwise returns ip; no RequestIP, explicit or nil, returns an address that
\* is currently allocated.
C9_ExplicitRequestConflicts ==
    mlast.op = "RequestIP" =>
        /\ (mlast.explicit /\ mlast.wasHeld) => mlast.err
        /\ (mlast.explicit /\ ~mlast.wasHeld) => ~mlast.err
        /\ ~mlast.err => ~mlast.wasHeld

\* C10: whatever addresses were passed to ReleaseIP, RequestIP(nil) hands out
\* neither the gateway, the network address or the broadcast address, nor an
\* address that is still held.
C10_StrayReleaseHarmless ==
    (mlast.op = "RequestIP" /\ ~mlast.err) =>
        /\ mlast.ip \in AllocableOf[address]
        /\ ~mlast.wasHeld

-----------------------------------------------------------------------------
(* Properties of the PortAllocator *)

\* C11: after any sequence of Acquire(0), Acquire(p) and Release, an Acquire(0)
\* that returns a port returns one that was not in inUse at the moment it was
\* recorded, and one of the range [portRangeStart, portRangeEnd).
C11_AcquireAnyFreshInRange ==
    (portLast.op = "Acquire0" /\ ~portLast.err) =>
        /\ portLast.ret \notin portLast.before
        /\ portLast.ret >= portRangeStart
        /\ portLast.ret < portRangeEnd

\* an Acquire(0) that had to pass over a port in use, with the test port held
C11_SkippedPortInUse ==
    /\ portLast.op = "Acquire0"
    /\ ~portLast.err
    /\ portLast.ret = portRangeStart + 1
    /\ portLast.before = {portRangeStart, TestPort}

\* C12: when several goroutines call Acquire, with 0 or with a port, and
\* Release concurrently, two Acquire calls never both succeed with the same
\* port unless that port was released between them.
C12_NoPortAcquiredTwice == \A port \in NamedPorts : acqSince[port] <= 1

\* caller 1 holds a port that the fountain gave it while caller 2 acquired
\* that port by number
C12_RaceForOnePort ==
    /\ portPc[1] = "try"
    /\ portLast.op = "Acquire"
    /\ portLast.c = 2
    /\ ~portLast.err
    /\ portLast.ret = portCand[1]
    /\ portCand[1] \in inUsePorts

\* what the last call of Acquire(p), p > 0, or of Release(p) returned and did
C13_LastCallAsStated ==
    /\ portLast.op = "Acquire" =>
        /\ portLast.err <=> portLast.port \in portLast.before
        /\ portLast.err => inUsePorts = portLast.before
        /\ ~portLast.err => /\ inUsePorts = portLast.before \cup {portLast.port}
                            /\ portLast.ret = portLast.port
    /\ portLast.op = "Release" =>
        /\ ~portLast.err
        /\ inUsePorts = portLast.before \ {portLast.port}

\* an Acquire(p) that returns next after Release(p) returns p
C13_AcquireAfterRelease ==
    (/\ portLast.op = "Release"
     /\ portLast'.op = "Acquire"
     /\ portLast'.port = portLast.port) => ~portLast'.err

\* C13: Acquire(p) with p > 0 fails exactly when p is in inUse, and then leaves
\* inUse unchanged; otherwise it records p and returns p. Release(p) never
\* fails and removes p, so that an Acquire(p) directly after Release(p)
\* succeeds.
C13_ExplicitAcquireAndRelease ==
    [](C13_LastCallAsStated) /\ [][C13_AcquireAfterRelease]_vars

\* Acquire(80) refused while port 80 and a port of the range are in use
C13_TestPortRefused ==
    /\ portLast.op = "Acquire"
    /\ portLast.err
    /\ portLast.port = TestPort
    /\ inUsePorts = {TestPort, portRangeStart}

\* C14: if at least one port of the range is not in use and the allocator has
\* not been closed, a call of Acquire(0) eventually returns a port, under fair
\* scheduling of the fountain and of the callers, also when other callers
\* acquire and release concurrently: no call stays in Acquire(0) for ever
\* while a port is free and Close has not been called.
C14_AcquireAnyReturns ==
    \A c \in Callers :
        []<>(portPc[c] \notin {"range", "try"} \/ FreePorts = {} \/ nClose > 0)

\* C15: after Release(p), with a single caller and no further Release, p is
\* handed out again on the fountain's next sweep: successive Acquire(0) calls
\* return p before the fountain has emitted more than one full cycle of the
\* range, and each returns the first free port in ascending cyclic order from
\* where the fountain stands, not p at once.
C15_ReleasedPortOnNextSweep ==
    /\ relPort # 0 => sinceRel <= RangeLen
    /\ (portLast.op = "Acquire0" /\ ~portLast.err) =>
           portLast.ret = NextFreePort(portLast.from, portLast.before, RangeLen)

\* the first port was released while the fountain stood behind it, and the
\* next Acquire(0) returned the second port while the first was still free
C15_IntermediatePortFirst ==
    /\ relPort = portRangeStart
    /\ sinceRel = 1
    /\ portLast.op = "Acquire0"
    /\ portLast.ret = portRangeStart + 1
    /\ portRangeStart \notin inUsePorts

\* C16: Close is idempotent: a second call of NetworkManager.Close, and so of
\* PortAllocator.Close, returns normally; no call of Close panics on a closed
\* channel.
C16_SecondCloseReturns == \A c \in Callers : portPc[c] # "panic"

\* C17 as stated: an Acquire(0) that was waiting on the fountain when Close
\* was called returns with an error, not with a port.
C17_WaitingAcquireGetsError ==
    (portLast.op = "Acquire0" /\ portLast.waited) => portLast.err

\* C17: an Acquire(0) that is waiting on the fountain when Close is called
\* eventually returns, with an error or with a free port of the range that
\* the fountain sent it before it took the quit signal, and the fountain
\* goroutine terminates: it has returned by the time a channel is closed, so
\* that it sends on no closed channel.
C17_WaitingAcquireReturns ==
    /\ \A c \in Callers : atClose[c] ~> ~atClose[c]
    /\ (nClose > 0) ~> (fountainPc = "returned")
    /\ []((quitClosed \/ fountainClosed) => fountainPc = "returned")
    /\ []((portLast.op = "Acquire0" /\ portLast.waited /\ ~portLast.err) =>
            portLast.ret \in PortRange \ portLast.before)

\* Close has returned, and the Acquire(0) that waited has returned the error
C17_WaiterGotErrorAfterClose ==
    /\ portLast.op = "Acquire0"
    /\ portLast.waited
    /\ portLast.err
    /\ fountainPc = "returned"
    /\ fountainClosed
    /\ \A c \in Callers : portPc[c] = "idle"

-----------------------------------------------------------------------------
(* Properties of the PortMapper *)

\* a DNAT rule of the chain names the host port under the protocol
RuleInstalled(proto, port) ==
    \E backend \in Backends : natRules[<<proto, port, backend>>] > 0

\* C18: in every quiescent state of a PortMapper, whatever the filter driver
\* and the proxy factory answered so far, for each protocol and host port
\* either the table entry, the proxy and (when the filter is enabled) the
\* installed filter rule are all present, or none of them is.
C18_MappedFullyOrNotAtAll ==
    \A proto \in Protos, port \in MapPorts :
        LET entry == mappingOf(proto)[port] # NoBackend
            proxy == port \in proxiesOf(proto)
        IN  /\ entry <=> proxy
            /\ iptables # "nil" => (entry <=> RuleInstalled(proto, port))

\* C19: if Map fails for a port that was not mapped before, at either of the
\* two rules Chain.Forward installs or at the start of the proxy, then no
\* partial state is left when it returns: no table entry, no proxy and no
\* filter rule exists for that port.
C19_FailedMapLeavesNothing ==
    (mapLast.op = "Map" /\ mapLast.err /\ ~mapLast.wasMapped) =>
        /\ mappingOf(mapLast.proto)[mapLast.port] = NoBackend
        /\ mapLast.port \notin proxiesOf(mapLast.proto)
        /\ ~RuleInstalled(mapLast.proto, mapLast.port)

\* the step is an Unmap of a port that had no entry under the protocol named
C20_UnmapOfUnmappedPort == mapLast'.op = "Unmap" /\ ~mapLast'.wasMapped

\* C20: Unmap of a host port that has no entry under the given protocol
\* returns the not-mapped error, calls neither the filter driver nor any
\* proxy, and leaves both protocol tables unchanged, whether or not the other
\* protocol has an entry for the same port number.
C20_UnmapUnknownPortRefused ==
    [][C20_UnmapOfUnmappedPort =>
        /\ mapLast'.err
        /\ mapLast'.failedAt = "notMapped"
        /\ mapLast'.filterCalls = 0
        /\ mapLast'.proxyCalls = 0
        /\ UNCHANGED <<tcpMapping, tcpProxies, udpMapping, udpProxies,
                       natRules, fwdRules>>]_vars

\* a UDP Unmap refused while the same port number is fully mapped under TCP
C20_UdpRefusedWhileTcpMapped ==
    /\ mapLast.op = "Unmap"
    /\ mapLast.proto = "udp"
    /\ mapLast.failedAt = "notMapped"
    /\ tcpMapping[mapLast.port] # NoBackend
    /\ mapLast.port \in tcpProxies
    /\ udpMapping[mapLast.port] = NoBackend
    /\ iptables # "nil"
    /\ RuleInstalled("tcp", mapLast.port)

\* table entry, proxy and, with the filter enabled, filter rule of a port
FullyMapped(proto, port) ==
    /\ mappingOf(proto)[port] # NoBackend
    /\ port \in proxiesOf(proto)
    /\ iptables # "nil" => RuleInstalled(proto, port)

NothingMapped(proto, port) ==
    /\ mappingOf(proto)[port] = NoBackend
    /\ port \notin proxiesOf(proto)
    /\ ~RuleInstalled(proto, port)

\* C21: Unmap removes both the proxy and the filter rule of a mapped port or
\* neither: when Unmap of a fully mapped port returns an error, its proxy,
\* rule and table entry are all still in place, and when it returns nil all
\* three are gone.
C21_UnmapAllOrNothing ==
    [][\A proto \in Protos, port \in MapPorts :
        (/\ mapLast'.op = "Unmap"
         /\ mapLast'.proto = proto
         /\ mapLast'.port = port
         /\ FullyMapped(proto, port)) =>
            IF mapLast'.err
            THEN FullyMapped(proto, port)'
            ELSE NothingMapped(proto, port)']_vars

\* C22: Map and Unmap calls on one PortMapper are serialized: when two
\* goroutines call Map or Unmap concurrently, the accesses of the two calls to
\* the mapping and proxy tables never interleave, so no call touches the
\* tables while another is between its first and its last access.
C22_TableAccessesSerialized ==
    \A c1, c2 \in Callers :
        (c1 # c2 /\ mapCall[c1].pc \in InTables) =>
            mapCall[c2].pc \notin InTables \cup {"record", "lookup"}

-----------------------------------------------------------------------------
(* Properties of NetworkManager and NetworkInterface *)

\* C23: an AllocatePort that fails records no port mapping in the interface;
\* when it fails in Map, the host port it had acquired is not in use in its
\* protocol's allocator afterwards; when it fails in Acquire, the allocators
\* and the mapper are as they were
C23_FailedAllocatePortUndone ==
    [][(mgrLast'.op = "AllocatePort" /\ mgrLast'.err) =>
          /\ ifaces' = ifaces
          /\ (mgrLast'.at = "map" /\ mgrLast'.proto = "tcp") =>
                 mgrLast'.port \notin inUsePorts'
          /\ (mgrLast'.at = "map" /\ mgrLast'.proto = "udp") =>
                 mgrLast'.port \notin udpInUse'
          /\ mgrLast'.at = "acquire" =>
                 UNCHANGED <<inUsePorts, udpInUse, inUse, inUse6, tcpMapping,
                             tcpProxies, udpMapping, udpProxies, natRules,
                             fwdRules>>]_vars

\* Map has refused a host port the call had acquired; the port is free again
C23_MapRefusedAcquiredPort ==
    /\ mgrLast.op = "AllocatePort"
    /\ mgrLast.err
    /\ mgrLast.at = "map"
    /\ mgrLast.port \in NamedPorts
    /\ mgrLast.port \notin portsOf(mgrLast.proto)
    /\ ifaces[mgrLast.i].extPorts = << >>

\* the log of a Release that takes the port mappings nats in the order given:
\* each one unmapped, then its host port released
LoggedInOrder(nats, log) ==
    /\ Len(log) = 2 * Len(nats)
    /\ \A k \in 1..Len(nats) :
          /\ log[2 * k - 1][1] = "Unmap"
          /\ log[2 * k - 1][2] = nats[k].proto
          /\ log[2 * k - 1][3] = nats[k].port
          /\ log[2 * k] = <<"Release", nats[k].proto, nats[k].port, FALSE>>

C25_ReleaseCleansUpDespiteErrors ==
    (mgrLast.op = "Release" /\ mgrLast.at = "none") =>
        /\ \A k \in 1..Len(mgrLast.nats) :
              mgrLast.nats[k].port \notin portsOf(mgrLast.nats[k].proto)
        /\ mgrLast.ip \notin inUse
        /\ mgrLast.ip6 \notin inUse6

\* a Release has returned after Unmap failed for a port mapping whose entry is
\* still in the mapper's table
C25_ReleasedAfterUnmapFailed ==
    /\ mgrLast.op = "Release"
    /\ mgrLast.at = "none"
    /\ Len(mgrLast.nats) >= 1
    /\ mgrLast.log[1][4]
    /\ mappingOf(mgrLast.nats[1].proto)[mgrLast.nats[1].port] # NoBackend
    /\ mgrLast.ip # NoIP

\* C26: when no driver call has failed, an AllocatePort with host port 0 returns
\* a port of the range that is in use in its allocator, with a table entry for
\* the container's address, the two filter rules and a proxy; and after a
\* Release that returns, every recorded port is free, the mapper has no entry,
\* no proxy and no rule for it, and both addresses are free
C26_AllocateReleaseRoundTrip ==
    refused = 0 =>
        /\ (mgrLast.op = "AllocatePort" /\ ~mgrLast.err /\ mgrLast.hostPort = 0) =>
               LET p == mgrLast.port
                   proto == mgrLast.proto
                   backend == ipToInt(ifaces[mgrLast.i].ip)
               IN  /\ p \in PortRange
                   /\ portRangeStart = 49153
                   /\ p \in portsOf(proto)
                   /\ mappingOf(proto)[p] = backend
                   /\ p \in proxiesOf(proto)
                   /\ natRules[<<proto, p, backend>>] >= 1
                   /\ fwdRules[<<proto, backend>>] >= 1
                   /\ ifaces[mgrLast.i].extPorts =
                          Append(mgrLast.nats, [proto |-> proto, port |-> p])
        /\ (mgrLast.op = "Release" /\ mgrLast.at = "none") =>
               /\ \A k \in 1..Len(mgrLast.nats) :
                     LET p == mgrLast.nats[k].port
                         proto == mgrLast.nats[k].proto
                     IN  /\ p \notin portsOf(proto)
                         /\ mappingOf(proto)[p] = NoBackend
                         /\ p \notin proxiesOf(proto)
                         /\ \A b \in MgrBackends : natRules[<<proto, p, b>>] = 0
                         /\ fwdRules[<<proto, ipToInt(mgrLast.ip)>>] = 0
               /\ mgrLast.ip \notin inUse
               /\ mgrLast.ip6 \notin inUse6

\* an interface with a port of the range mapped has been released, no driver
\* call having failed
C26_RoundTripDone ==
    /\ refused = 0
    /\ mgrLast.op = "Release"
    /\ mgrLast.at = "none"
    /\ Len(mgrLast.nats) >= 1
    /\ mgrLast.nats[1].port \in PortRange
    /\ mgrLast.ip # NoIP
    /\ mgrLast.ip6 # NoIP

\* C27: when Allocate has discarded the first address it acquired because it
\* equals first+1, and has acquired again, the discarded address is not in
\* use in the IPv4 allocator when Allocate returns
C27_DiscardedAddressReleased ==
    (mgrLast.op = "Allocate" /\ mgrLast.discarded # NoIP) =>
        mgrLast.discarded \notin inUse

\* C28: no call of Allocate, AllocatePort, Release or Close panics, in whatever
\* order the calls are made
C28_NoOperationPanics == ~mgrPanic

\* C29: on a disabled manager no call touches an allocator or the mapper;
\* Allocate returns a disabled interface without error, AllocatePort on it
\* returns an error and records nothing, Release and Close return without
\* error and without panic
C29_DisabledManagerDoesNothing ==
    [][disabled =>
          /\ UNCHANGED <<inUse, pos, inUse6, pos6, inUsePorts, fountainPort,
                         udpInUse, udpFountain, tcpMapping, tcpProxies, udpMapping,
                         udpProxies, natRules, fwdRules, mgrClosed, mgrPanic>>
          /\ ~mgrPanic'
          /\ mgrLast'.op = "Allocate" =>
                 /\ ~mgrLast'.err
                 /\ ifaces'[mgrLast'.i].disabled
                 /\ ifaces'[mgrLast'.i].state = "live"
          /\ mgrLast'.op = "AllocatePort" =>
                 /\ mgrLast'.err
                 /\ ifaces' = ifaces
          /\ mgrLast'.op \in {"Release", "Close"} => ~mgrLast'.err]_vars

\* on a disabled manager, one interface has been released, another is still
\* held, and the manager has been closed
C29_DisabledManagerUsed ==
    /\ disabled
    /\ mgrLast.op = "Close"
    /\ \E i, j \in Ifaces :
          /\ ifaces[i].state = "released"
          /\ ifaces[i].disabled
          /\ ifaces[j].state = "live"
          /\ ifaces[j].disabled
    /\ ~mgrClosed
    /\ inUse = {}

-----------------------------------------------------------------------------
(* Properties of the functions of the package *)

\* a <= b for two addresses of one length, byte by byte from the first
RECURSIVE AddrLeq(_, _, _)
AddrLeq(a, b, i) ==
    IF i > Len(a) THEN TRUE
    ELSE IF a[i] < b[i] THEN TRUE
    ELSE IF a[i] > b[i] THEN FALSE
    ELSE AddrLeq(a, b, i + 1)

\* the ranges [first, last] of two networks of one family share an address
RangesMeet(netX, netY) ==
    /\ AddrLeq(networkRange(netX)[1], networkRange(netY)[2], 1)
    /\ AddrLeq(networkRange(netY)[1], networkRange(netX)[2], 1)

\* C30: networkOverlaps gives the same answer with its arguments exchanged,
\* answers true for a network and itself, and for two networks of one family
\* answers true exactly when their ranges [first, last] share an address
C30_OverlapsIsRangeIntersection ==
    (fnCall.fn = "networkOverlaps" /\ fnCall.done) =>
        /\ fnCall.result = networkOverlaps(fnCall.netY, fnCall.netX)
        /\ fnCall.netX = fnCall.netY => fnCall.result
        /\ Len(fnCall.netX.IP) = Len(fnCall.netY.IP) =>
               (fnCall.result <=> RangesMeet(fnCall.netX, fnCall.netY))

\* netY starts before netX and ends with it, and the call answers true
C30_OverlapSeenFromSecondNetwork ==
    /\ fnCall.fn = "networkOverlaps"
    /\ fnCall.netX = [IP |-> <<172, 16, 1, 0>>, Mask |-> <<255, 255, 255, 0>>]
    /\ fnCall.netY = [IP |-> <<172, 16, 0, 0>>, Mask |-> <<255, 255, 254, 0>>]
    /\ fnCall.done
    /\ fnCall.result
    /\ ~Contains(fnCall.netX, networkRange(fnCall.netY)[1])

\* 2^k for 0 <= k <= 32 as the pair of its upper and lower 16 bits, the upper
\* one reaching 65536 for k = 32
PowerOfTwo(k) == IF k >= 16 THEN <<2 ^ (k - 16), 0>> ELSE <<0, 2 ^ k>>

\* C31: for every prefix length p of 0 .. 32, networkSize of the mask of /p is
\* 2^(32-p)
C31_NetworkSizeIsPowerOfTwo ==
    (fnCall.fn = "networkSize" /\ fnCall.done) =>
        /\ fnCall.result >= 0
        /\ <<fnCall.result \div 65536, fnCall.result % 65536>> =
               PowerOfTwo(32 - fnCall.ones)

\* the address a 4-byte or 16-byte IPv4 address stands for (net.IP.Equal)
SameAddr(a, b) ==
    (IF To4(a) # NoIP THEN To4(a) ELSE a) = (IF To4(b) # NoIP THEN To4(b) ELSE b)

C33_BridgeCreatedAtMostOnce == boot.creates <= 1

\* the networks of the candidates, in the order of their lists
CandidateNets(addrs) ==
    [i \in 1..Len(addrs) |-> parseCIDR(addrs[i][1], addrs[i][2])]

CandidateNets4 == CandidateNets(addrs4)

CandidateNets6 == [seed \in Seeds |-> CandidateNets(addrs6(seed))]

\* the first and the last address of every network a bridge call may meet
BridgeRanges ==
    [n \in HostRoutes \cup HostNameservers
              \cup {CandidateNets4[i] : i \in 1..Len(addrs4)}
              \cup UNION {{CandidateNets6[seed][i] : i \in 1..12} :
                             seed \in Seeds}
        |-> networkRange(n)]

\* no route and no nameserver of the candidate's family has an address
\* between the first and the last address of the candidate
FreeOf(candidate, routes, nameservers) ==
    \A n \in routes \cup nameservers :
        Len(n.IP) = Len(candidate.IP) =>
            \/ ~AddrLeq(BridgeRanges[candidate][1], BridgeRanges[n][2], 1)
            \/ ~AddrLeq(BridgeRanges[n][1], BridgeRanges[candidate][2], 1)

\* the index of the first candidate of the list that is free, 0 without one
FirstFree(candidates, routes, nameservers) ==
    LET free == {i \in 1..Len(candidates) :
                    FreeOf(candidates[i], routes, nameservers)}
    IN  IF free = {} THEN 0 ELSE CHOOSE i \in free : \A j \in free : i <= j

\* C34: a call of CreateBridgeIface that could read the routes keeps, for
\* IPv4 and for IPv6 each on its own, the first candidate of the list that
\* overlaps no route and no nameserver; without one for either family it
\* returns an error, having added no link and called iptables not once
C34_FirstFreeCandidateChosen ==
    (boot.create.called /\ boot.create.routesRead) =>
        /\ boot.create.ifaceAddr =
               FirstFree(CandidateNets4, boot.create.routes, host.nameservers)
        /\ boot.create.iface6Addr =
               FirstFree(CandidateNets6[boot.create.seed], boot.create.routes,
                         host.nameservers)
        /\ (boot.create.ifaceAddr = 0 \/ boot.create.iface6Addr = 0) =>
               /\ boot.create.err
               /\ boot.create.linkAdds = 0
               /\ boot.create.raws = 0

\* 172.16.0.0/12 and 10.0.0.0/8 are routed and the first unique local
\* address is taken: the call kept 192.168.42.1/24 after nine candidates and
\* the second unique local address, and made the bridge
C34_LaterCandidatesChosen ==
    /\ boot.create.called
    /\ ~boot.create.err
    /\ boot.create.ifaceAddr = 10
    /\ boot.create.iface6Addr = 2
    /\ boot.create.linkAdds = 1
    /\ host.exists

(***************************************************************************)
(* Properties of the channel-based IPAllocator under any Release           *)
(***************************************************************************)

\* C35: whatever addresses are passed to Release, no later Acquire returns
\* without error the network address, the broadcast address, the gateway
\* or an address outside the subnet
C35_StrayReleaseKeepsAcquireAllocable ==
    (last.op = "Acquire" /\ ~last.err) => last.ip \in AllocableOf[network]

\* C36: on an IPv4 network without allocable position (size - 2 <= 0)
\* Acquire returns an error, never an address without error
C36_NoPositionMeansError ==
    (last.op = "Acquire" /\ IsV4(network.IP) /\ LastPosOf[network] <= 0) =>
        last.err

(***************************************************************************)
(* Properties of PortAllocator with every port in use                      *)
(***************************************************************************)

\* C37: Acquire(0) never returns an error for want of a free port: it
\* returns an error only once Close has closed the fountain, and a port only
\* if that port was free; with every port in use it stays in its loop
C37_AcquireAnyWaitsWhileFull ==
    [][\A c \in Callers :
          (portPc[c] \in {"range", "try"} /\ portPc'[c] = "idle") =>
              IF portLast'.err THEN fountainClosed
              ELSE portLast'.ret \in PortRange \ inUsePorts]_vars

\* every port of the range is in use, the fountain is open, and a caller of
\* Acquire(0) holds a candidate of the fountain that its loop will refuse
C37_WaitingWhileFull ==
    /\ PortRange \subseteq inUsePorts
    /\ ~fountainClosed
    /\ \E c \in Callers :
          /\ portPc[c] = "try"
          /\ portCand[c] \in inUsePorts
          /\ portCand[c] # portFrom[c]

(***************************************************************************)
(* Properties of PortMapper.Map on a mapped port                           *)
(***************************************************************************)

\* C38: a Map that fails on a host port already mapped under the same
\* protocol leaves that mapping as it was: the table entry names the same
\* backend, its proxy is running and its rule is installed
C38_FailedMapKeepsMapping ==
    [][\A proto \in Protos, port \in MapPorts :
          (/\ mapLast'.op = "Map"
           /\ mapLast'.err
           /\ mapLast'.proto = proto
           /\ mapLast'.port = port
           /\ mapLast'.wasMapped
           /\ port \in proxiesOf(proto)) =>
              /\ proto = "tcp" => /\ tcpMapping'[port] = tcpMapping[port]
                                  /\ port \in tcpProxies'
              /\ proto = "udp" => /\ udpMapping'[port] = udpMapping[port]
                                  /\ port \in udpProxies'
              /\ natRules'[<<proto, port, mappingOf(proto)[port]>>] >=
                     natRules[<<proto, port, mappingOf(proto)[port]>>]]_vars

(***************************************************************************)
(* Properties of NetworkManager.Allocate and of a repeated Release         *)
(***************************************************************************)

\* C39: an Allocate that returns an error leaves no address allocated that
\* was free before the call
C39_FailedAllocateLeavesNothing ==
    [][(mgrLast'.op = "Allocate" /\ mgrLast'.err /\ ~mgrPanic') =>
          /\ inUse' \subseteq inUse
          /\ inUse6' \subseteq inUse6]_vars

\* C40: a second Release on an interface frees nothing that another
\* interface owns: the addresses of a live interface stay in use, its host
\* ports stay in use and stay mapped
C40_SecondReleaseFreesNothingOwned ==
    [][\A i, j \in Ifaces :
          (/\ ifaces[i].state = "released"
           /\ ifaces'[i].state = "released twice"
           /\ ifaces[j].state = "live") =>
              /\ ifaces[j].ip \in inUse => ifaces[j].ip \in inUse'
              /\ ifaces[j].ip6 \in inUse6 => ifaces[j].ip6 \in inUse6'
              /\ \A k \in 1..Len(ifaces[j].extPorts) :
                    LET nat == ifaces[j].extPorts[k]
                    IN  IF nat.proto = "tcp"
                        THEN /\ nat.port \in inUsePorts =>
                                    nat.port \in inUsePorts'
                             /\ tcpMapping'[nat.port] = tcpMapping[nat.port]
                        ELSE /\ nat.port \in udpInUse => nat.port \in udpInUse'
                             /\ udpMapping'[nat.port] = udpMapping[nat.port]]_vars

====
